---- MODULE Spec2Model ----
(***************************************************************************)
(* Whop member directory: webhook ingestion, tenant resolution and the     *)
(* member store, as implemented by the server variants of the repository:  *)
(*   "main"   src/server.js lines 507-1633 (app-store server)              *)
(*   "app"    src/server.js lines 1-506    (Whop app server)               *)
(*   "native" src/unnamed/part_000         (native app, signed webhooks)   *)
(*   "fixed"  src/unnamed/part_001         (slug-aware server)             *)
(*   "group"  src/unnamed/part_002         (groups + waitlist server)      *)
(* A behaviour runs one variant against its own store.                     *)
(***************************************************************************)
EXTENDS Integers, Sequences, FiniteSets, TLC

VARIABLES variant, env, tenants, members, waitlist, now, op, req, resp, pre,
          resolved, out, fault, alive, sent, procs, failed, handled

vars == <<variant, env, tenants, members, waitlist, now, op, req, resp, pre,
          resolved, out, fault, alive, sent, procs, failed, handled>>

(***************************************************************************)
(* Bounds of the model.                                                    *)
(***************************************************************************)
\* number of requests handled in one behaviour
MaxRequests == 3

(***************************************************************************)
(* JavaScript values.  An absent property, undefined and null are NULL; a  *)
(* JSON object is a record (a function from its keys), {} is <<>>.         *)
(***************************************************************************)
NULL == "null"

Truthy(v) == v # NULL /\ v # ""

\* a || b on strings
OrElse(a, b) == IF Truthy(a) THEN a ELSE b

\* obj.k for a string-valued property
F(obj, k) == IF k \in DOMAIN obj THEN obj[k] ELSE NULL

\* obj.k is present (used for object-valued properties)
Has(obj, k) == k \in DOMAIN obj

\* obj.k for an object-valued property, {} standing for undefined/null
Sub(obj, k) == IF k \in DOMAIN obj THEN obj[k] ELSE <<>>

\* the strings of the model that carry white space, and String.prototype.trim
WS == "  "
PaddedT1 == " biz_1 "

Trim(s) ==
  CASE s = WS -> ""
    [] s = PaddedT1 -> "biz_1"
    [] OTHER -> s

(***************************************************************************)
(* Referer URLs.  A URL  https://<host>/<p1>/<p2>...[/][?k=v&...]  is the  *)
(* record [host, path, slash, query]; path segments are non-empty and hold *)
(* no '/', '?' or '&'.  The regular expressions of the source are written  *)
(* as operators over this structure.                                       *)
(***************************************************************************)
Url(h, p, s, q) == [host |-> h, path |-> p, slash |-> s, query |-> q]

\* the labels of the host names the model uses
HostLabels(h) ==
  CASE h = "whop.com" -> <<"whop", "com">>
    [] h = "www.whop.com" -> <<"www", "whop", "com">>
    [] h = "acme.whop.com" -> <<"acme", "whop", "com">>
    [] h = "abcd1234.apps.whop.com" -> <<"abcd1234", "apps", "whop", "com">>
    [] h = "apps.apps.whop.com" -> <<"apps", "apps", "whop", "com">>
    [] h = "example.com" -> <<"example", "com">>

\* the host ends with the text "whop.com"
EndsWithWhopCom(h) ==
  LET l == HostLabels(h) IN
    Len(l) >= 2 /\ l[Len(l) - 1] = "whop" /\ l[Len(l)] = "com"

\* referer.includes('whop'), for the hosts and segments of the model
IncludesWhop(u) ==
  \E i \in 1..Len(HostLabels(u.host)) : HostLabels(u.host)[i] = "whop"

\* text properties of the path segments the model uses
StartsWithBiz(s) == s \in {"biz_1", "biz_2"}
ContainsApp(s) == s \in {"app", "apps", "directory-app"}
StartsWith(s, w) == s = w \/ (w = "app" /\ s = "apps")
\* label.length > 3 for the first labels of the hosts of the model
LongerThan3(l) == l \in {"acme", "abcd1234", "example", "apps", "whop"}
\* [a-zA-Z0-9]+
IsAlnum(l) == l \in {"acme", "abcd1234", "example", "www", "whop", "com", "apps"}

\* the piece before path segment i: the host for i = 1
PieceBefore(u, i) == IF i = 1 THEN u.host ELSE u.path[i - 1]

\* the least index of a set of naturals, 0 if the set is empty
MinOf(S) == IF S = {} THEN 0 ELSE CHOOSE i \in S : \A j \in S : i <= j

\* /\/<word>\/([^\/\?]+)/ : the segment after the first segment equal to word
AfterSegment(u, word) ==
  LET i == MinOf({j \in 1..(Len(u.path) - 1) : u.path[j] = word})
  IN IF i = 0 THEN NULL ELSE u.path[i + 1]

\* /\/([^\/]+)\/<word>/ : the piece before the first segment starting with word
BeforeSegmentStarting(u, word) ==
  LET i == MinOf({j \in 1..Len(u.path) : StartsWith(u.path[j], word)})
  IN IF i = 0 THEN NULL ELSE PieceBefore(u, i)

\* /<key>=([^&\?]+)/ : the value of the first query parameter named key
QueryValue(u, key) ==
  LET i == MinOf({j \in 1..Len(u.query) : u.query[j][1] = key})
  IN IF i = 0 THEN NULL ELSE u.query[i][2]

\* the referer patterns of the main server, in order; NULL if no match
RefererPattern(u, n) ==
  CASE n = 1 -> AfterSegment(u, "apps")
    [] n = 2 ->
         LET i == MinOf({j \in 1..(Len(u.path) - 1) : u.path[j] = "apps"})
         IN IF i = 0 THEN NULL ELSE PieceBefore(u, i)
    [] n = 3 ->
         IF EndsWithWhopCom(u.host) /\ Len(u.path) >= 2 /\ ContainsApp(u.path[2])
         THEN u.path[1] ELSE NULL
    [] n = 4 ->
         LET i == MinOf({j \in 1..Len(u.path) : StartsWithBiz(u.path[j])})
         IN IF i = 0 THEN NULL ELSE u.path[i]
    [] n = 5 -> AfterSegment(u, "company")
    [] n = 6 -> AfterSegment(u, "business")
    [] n = 7 -> QueryValue(u, "company_id")
    [] n = 8 -> QueryValue(u, "business_id")
    [] n = 9 -> QueryValue(u, "page_id")
    [] n = 10 ->
         LET l == HostLabels(u.host) IN
           IF Len(l) >= 3 /\ l[2] = "whop" /\ l[3] = "com" THEN l[1] ELSE NULL
    [] n = 11 ->
         IF EndsWithWhopCom(u.host) /\ Len(u.path) >= 2 THEN u.path[1] ELSE NULL
    [] n = 12 ->
         IF EndsWithWhopCom(u.host) /\ Len(u.path) >= 1 THEN u.path[1] ELSE NULL
    [] n = 13 -> BeforeSegmentStarting(u, "dashboard")
    [] n = 14 -> BeforeSegmentStarting(u, "members")
    [] n = 15 -> BeforeSegmentStarting(u, "apps")

NumRefererPatterns == 15

Placeholders == {"www", "app", "apps"}

\* extractCompanyFromReferer: first pattern whose capture is no placeholder
extractCompanyFromReferer(headers) ==
  IF ~Has(headers, "referer") THEN NULL
  ELSE
    LET u == headers["referer"]
        hits == {n \in 1..NumRefererPatterns :
                   /\ RefererPattern(u, n) # NULL
                   /\ RefererPattern(u, n) \notin Placeholders}
    IN IF hits = {} THEN NULL ELSE RefererPattern(u, MinOf(hits))

\* extractCompanyFromWhopApps: https://<id>.apps.whop.com with a long id
extractCompanyFromWhopApps(headers) ==
  IF ~Has(headers, "referer") THEN NULL
  ELSE
    LET u == headers["referer"]
        l == HostLabels(u.host)
    IN IF ~IncludesWhop(u) THEN NULL
       ELSE IF /\ Len(l) >= 4
               /\ l[2] = "apps" /\ l[3] = "whop" /\ l[4] = "com"
               /\ IsAlnum(l[1])
               /\ LongerThan3(l[1])
            THEN l[1] ELSE NULL

\* the first source that is a string with a non-empty trim, trimmed
RECURSIVE FirstClean(_)
FirstClean(sources) ==
  IF sources = <<>> THEN NULL
  ELSE IF Truthy(Head(sources)) /\ Trim(Head(sources)) # ""
       THEN Trim(Head(sources))
       ELSE FirstClean(Tail(sources))

\* extractCompanyId of the main server
extractCompanyId(r) ==
  LET h == r.headers
      q == r.query
      b == r.body
      d == Sub(b, "data")
  IN FirstClean(<<
       F(h, "x-page-id"), F(h, "x-whop-company-id"),
       F(h, "x-company-id"), F(h, "x-business-id"),
       F(q, "company"), F(q, "company_id"), F(q, "business_id"),
       F(q, "page_id"), F(q, "biz"),
       F(b, "page_id"), F(b, "company_id"), F(b, "business_id"),
       F(d, "page_id"), F(d, "company_id"), F(d, "business_id"),
       F(Sub(d, "product"), "company_id"),
       extractCompanyFromWhopApps(h),
       extractCompanyFromReferer(h) >>)

(***************************************************************************)
(* The resolver of the slug-aware server (part_001): query parameter, then *)
(* Referer patterns, then headers.                                         *)
(***************************************************************************)
\* the referer patterns of part_001, in order; NULL if no match
RefererPattern_p001(u, n) ==
  CASE n = 1 ->
         IF /\ EndsWithWhopCom(u.host)
            /\ Len(u.path) >= 3
            /\ u.path[3] = "app"
            /\ (Len(u.path) >= 4 \/ u.slash)
         THEN u.path[1] ELSE NULL
    [] n = 2 ->
         IF /\ EndsWithWhopCom(u.host)
            /\ Len(u.path) >= 1
            /\ (Len(u.path) >= 2 \/ u.slash)
         THEN u.path[1] ELSE NULL
    [] n = 3 ->
         LET i == MinOf({j \in 1..Len(u.path) : StartsWithBiz(u.path[j])})
             k == MinOf({j \in 1..Len(u.query) : StartsWithBiz(u.query[j][2])})
         IN IF i # 0 THEN u.path[i]
            ELSE IF k # 0 THEN u.query[k][2] ELSE NULL
    [] n = 4 ->
         LET i == MinOf({j \in 2..Len(u.path) : StartsWith(u.path[j], "tools")})
         IN IF i = 0 THEN NULL ELSE u.path[i - 1]
    [] n = 5 ->
         LET i == MinOf({j \in 2..Len(u.path) : StartsWith(u.path[j], "integrations")})
         IN IF i = 0 THEN NULL ELSE u.path[i - 1]

NumRefererPatterns_p001 == 5

\* the headers in the order the request lists them
HeaderOrder == <<"x-page-id", "x-whop-company-id", "x-company-id", "x-business-id">>

\* extractCompanyId of part_001
extractCompanyId_p001(r) ==
  LET h == r.headers
      hits == IF Has(h, "referer")
              THEN {n \in 1..NumRefererPatterns_p001 :
                      RefererPattern_p001(h["referer"], n) # NULL}
              ELSE {}
      biz == {i \in 1..Len(HeaderOrder) : StartsWithBiz(F(h, HeaderOrder[i]))}
  IN IF Truthy(F(r.query, "company_id")) THEN F(r.query, "company_id")
     ELSE IF hits # {} THEN RefererPattern_p001(h["referer"], MinOf(hits))
     ELSE IF Truthy(F(h, "x-company-id")) THEN F(h, "x-company-id")
     ELSE IF Truthy(F(h, "x-whop-company-id")) THEN F(h, "x-whop-company-id")
     ELSE IF biz # {} THEN F(h, HeaderOrder[MinOf(biz)])
     ELSE NULL

(***************************************************************************)
(* The store.  tenants is the company table of the variant (whop_companies,*)
(* app_installations or groups), members its member table, waitlist the    *)
(* waitlist_responses table of part_002.  Timestamps are readings of the   *)
(* clock now.  A store value is the record [tenants, members, waitlist].   *)
(***************************************************************************)
Tenant(c, name, st, inst, last, iid, sec, slug) ==
  [company_id |-> c, company_name |-> name, status |-> st, installed_at |-> inst,
   last_activity |-> last, installation_id |-> iid, webhook_secret |-> sec,
   company_slug |-> slug]

Member(c, u, m, e, n, un, pic, cf, st, j, upd) ==
  [company_id |-> c, user_id |-> u, membership_id |-> m, email |-> e,
   name |-> n, username |-> un, profile_picture_url |-> pic,
   custom_fields |-> cf, status |-> st, joined_at |-> j, updated_at |-> upd]

Store(t, m, w) == [tenants |-> t, members |-> m, waitlist |-> w]

\* COALESCE(new, old)
Coalesce(new, old) == IF new # NULL THEN new ELSE old

\* the value of the first object-valued property of data among keys, else {}
RECURSIVE FirstObject(_, _)
FirstObject(data, keys) ==
  IF keys = <<>> THEN <<>>
  ELSE IF Has(data, Head(keys)) THEN data[Head(keys)]
       ELSE FirstObject(data, Tail(keys))

\* a || b || ... || null over string-valued properties
RECURSIVE FirstTruthy(_)
FirstTruthy(vals) ==
  IF vals = <<>> THEN NULL
  ELSE IF Truthy(Head(vals)) THEN Head(vals) ELSE FirstTruthy(Tail(vals))

(***************************************************************************)
(* data.user is a string in some payloads and an object in others: the     *)
(* string s is written [str |-> s], an object is the record of its fields. *)
(***************************************************************************)
UserStr(data) ==
  IF Has(data, "user") /\ Has(data["user"], "str") THEN data["user"]["str"] ELSE NULL

UserObj(data) ==
  IF Has(data, "user") /\ ~Has(data["user"], "str") THEN data["user"] ELSE <<>>

\* what the driver stores for an object parameter: its JSON text
JsonText == "{json}"

\* data.user_id || data.user
UserIdOrUser(data) ==
  IF Truthy(F(data, "user_id")) THEN F(data, "user_id")
  ELSE IF Truthy(UserStr(data)) THEN UserStr(data)
  ELSE IF Has(data, "user") /\ ~Has(data["user"], "str") THEN JsonText
  ELSE NULL

\* data.first_name && data.last_name ? `${first_name} ${last_name}` : null
FullName(data) ==
  IF Truthy(F(data, "first_name")) /\ Truthy(F(data, "last_name"))
  THEN F(data, "first_name") \o " " \o F(data, "last_name")
  ELSE NULL

(***************************************************************************)
(* Main server (src/server.js, second half).                               *)
(***************************************************************************)
\* companyId.replace('biz_', '') for an id that starts with biz_
AfterBiz(c) == CASE c = "biz_1" -> "1" [] c = "biz_2" -> "2" [] OTHER -> ""

\* the id with _ and - turned into spaces, words capitalised, trimmed
CleanName(c) ==
  CASE c = "acme" -> "Acme"
    [] c = "abcd1234" -> "Abcd1234"
    [] c = WS -> ""
    [] OTHER -> c

generateCompanyName(c) ==
  IF StartsWithBiz(c) THEN AfterBiz(c) \o " Community"
  ELSE CleanName(c) \o " Directory"

\* ensureCompanyExists: INSERT ... ON CONFLICT (company_id) DO UPDATE
ensureCompanyExists(S, c, t) ==
  IF \E r \in S.tenants : r.company_id = c
  THEN [S EXCEPT !.tenants =
          {IF r.company_id = c THEN [r EXCEPT !.last_activity = t] ELSE r :
             r \in S.tenants}]
  ELSE [S EXCEPT !.tenants =
          S.tenants \cup {Tenant(c, generateCompanyName(c), "active", t, t, NULL,
                                  NULL, NULL)}]

\* an ON CONFLICT update that merges the delivered mapping into the stored one
UpsertMain_merging(old, c, u, m, e, n, un, cf, t) ==
  [old EXCEPT !.membership_id = m,
              !.email = Coalesce(e, old.email),
              !.name = Coalesce(n, old.name),
              !.username = Coalesce(un, old.username),
              !.custom_fields = cf @@ old.custom_fields,
              !.status = "active",
              !.updated_at = t]

\* the member row written by INSERT ... ON CONFLICT (user_id, company_id)
UpsertMain(old, c, u, m, e, n, un, cf, t) ==
  [old EXCEPT !.membership_id = m,
              !.email = Coalesce(e, old.email),
              !.name = Coalesce(n, old.name),
              !.username = Coalesce(un, old.username),
              !.custom_fields = cf,
              !.status = "active",
              !.updated_at = t]

handleMembershipValid(S0, c, data, t) ==
  LET userId == UserIdOrUser(data)
      membershipId == OrElse(F(data, "id"), F(data, "membership_id"))
      S == ensureCompanyExists(S0, c, t)
      customFields ==
        FirstObject(data, <<"custom_field_responses", "waitlist_responses",
                            "custom_fields", "responses", "metadata">>)
      userEmail ==
        FirstTruthy(<<F(data, "email"), F(data, "user_email"),
                      F(UserObj(data), "email")>>)
      userName ==
        FirstTruthy(<<F(data, "name"), F(data, "display_name"),
                      F(data, "user_name"), F(UserObj(data), "name"),
                      F(UserObj(data), "display_name"), FullName(data)>>)
      username ==
        FirstTruthy(<<F(data, "username"), F(data, "user_username"),
                      F(UserObj(data), "username")>>)
      hit == {r \in S.members : r.user_id = userId /\ r.company_id = c}
  IN IF ~Truthy(userId) THEN S0
     ELSE IF hit # {}
     THEN [S EXCEPT !.members =
             {IF r \in hit
              THEN UpsertMain(r, c, userId, membershipId, userEmail, userName,
                              username, customFields, t)
              ELSE r : r \in S.members}]
     ELSE [S EXCEPT !.members =
             S.members \cup
               {Member(c, userId, membershipId, userEmail, userName, username,
                       NULL, customFields, "active", t, t)}]

\* a deactivation that also drops the stored email
handleMembershipInvalid_forgetful(S, c, data, t) ==
  LET userId == UserIdOrUser(data)
  IN IF ~Truthy(userId) THEN S
     ELSE [S EXCEPT !.members =
             {IF r.user_id = userId /\ r.company_id = c
              THEN [r EXCEPT !.status = "inactive", !.email = NULL,
                             !.updated_at = t]
              ELSE r : r \in S.members}]

handleMembershipInvalid(S, c, data, t) ==
  LET userId == UserIdOrUser(data)
  IN IF ~Truthy(userId) THEN S
     ELSE [S EXCEPT !.members =
             {IF r.user_id = userId /\ r.company_id = c
              THEN [r EXCEPT !.status = "inactive", !.updated_at = t]
              ELSE r : r \in S.members}]

\* an update that also sets the status of the row
handleMembershipUpdate_activating(S, c, data, t) ==
  LET userId == UserIdOrUser(data)
      customFields ==
        FirstObject(data, <<"custom_field_responses", "waitlist_responses",
                            "custom_fields", "responses">>)
      e == FirstTruthy(<<F(data, "email")>>)
      n == FirstTruthy(<<F(data, "name"), F(data, "display_name")>>)
      un == FirstTruthy(<<F(data, "username")>>)
      hit == {r \in S.members : r.user_id = userId /\ r.company_id = c}
  IN IF ~Truthy(userId) THEN S
     ELSE IF hit # {}
     THEN [S EXCEPT !.members =
             {IF r \in hit
              THEN [r EXCEPT !.email = Coalesce(e, r.email),
                             !.name = Coalesce(n, r.name),
                             !.username = Coalesce(un, r.username),
                             !.custom_fields =
                                IF DOMAIN customFields # {} THEN customFields
                                ELSE r.custom_fields,
                             !.status = "active",
                             !.updated_at = t]
              ELSE r : r \in S.members}]
     ELSE handleMembershipValid(S, c, data, t)

handleMembershipUpdate(S, c, data, t) ==
  LET userId == UserIdOrUser(data)
      customFields ==
        FirstObject(data, <<"custom_field_responses", "waitlist_responses",
                            "custom_fields", "responses">>)
      e == FirstTruthy(<<F(data, "email")>>)
      n == FirstTruthy(<<F(data, "name"), F(data, "display_name")>>)
      un == FirstTruthy(<<F(data, "username")>>)
      hit == {r \in S.members : r.user_id = userId /\ r.company_id = c}
  IN IF ~Truthy(userId) THEN S
     ELSE IF hit # {}
     THEN [S EXCEPT !.members =
             {IF r \in hit
              THEN [r EXCEPT !.email = Coalesce(e, r.email),
                             !.name = Coalesce(n, r.name),
                             !.username = Coalesce(un, r.username),
                             !.custom_fields =
                                IF DOMAIN customFields # {} THEN customFields
                                ELSE r.custom_fields,
                             !.updated_at = t]
              ELSE r : r \in S.members}]
     ELSE handleMembershipValid(S, c, data, t)

\* the event-kind spellings of the switch of the main webhook handler
ValidKinds ==
  {"membership_went_valid", "membership.went_valid", "membership_created",
   "membership.created", "user_joined", "user.joined"}
InvalidKinds ==
  {"membership_went_invalid", "membership.went_invalid", "membership_cancelled",
   "membership.cancelled", "user_left", "user.left"}
UpdateKinds ==
  {"membership_updated", "membership.updated", "user_updated", "user.updated"}

\* req.body.event_type || req.body.action
EventType(r) == OrElse(F(r.body, "event_type"), F(r.body, "action"))

\* req.body.data || req.body
EventData(r) == IF Has(r.body, "data") THEN r.body["data"] ELSE r.body

\* the company id the main webhook handler works with, NULL if none
WebhookCompanyId(r) ==
  LET data == EventData(r)
      fromReq == extractCompanyId(r)
  IN IF Truthy(fromReq) THEN fromReq
     ELSE FirstTruthy(<<F(data, "page_id"), F(data, "company_id"),
                        F(data, "business_id"),
                        F(Sub(data, "data"), "page_id"),
                        F(Sub(data, "data"), "company_id")>>)

\* a default branch that takes every event of unknown kind for a membership
DefaultEvent_eager(S, companyId, data, t) ==
  handleMembershipValid(S, companyId, data, t)

\* the default branch of the switch: an event of no known kind
DefaultEvent(S, companyId, data, t) ==
  IF F(data, "status") = "completed" /\ F(data, "valid") = "true"
  THEN handleMembershipValid(S, companyId, data, t)
  ELSE S

\* ensureCompanyExists, then the switch over the event kind
DispatchMain(S, companyId, eventType, data, t) ==
  LET S1 == ensureCompanyExists(S, companyId, t)
  IN IF eventType \in ValidKinds
       THEN handleMembershipValid(S1, companyId, data, t)
     ELSE IF eventType \in InvalidKinds
       THEN handleMembershipInvalid(S1, companyId, data, t)
     ELSE IF eventType \in UpdateKinds
       THEN handleMembershipUpdate(S1, companyId, data, t)
     ELSE DefaultEvent(S1, companyId, data, t)

\* app.post('/webhook/whop') of the main server: [store, status]
WebhookMainResult(S, r, t) ==
  LET eventType == EventType(r)
      data == EventData(r)
      companyId == WebhookCompanyId(r)
  IN IF ~Truthy(eventType) THEN [store |-> S, status |-> 400]
     ELSE IF ~Truthy(companyId) THEN [store |-> S, status |-> 400]
     ELSE [status |-> 200,
           store |-> DispatchMain(S, companyId, eventType, data, t)]

(***************************************************************************)
(* Whop app server (src/server.js, first half).  Its handlers catch every  *)
(* error themselves, so a rejected statement leaves what was written       *)
(* before it.                                                              *)
(***************************************************************************)
\* an ensureInstallationExists that switches a found installation on again
ensureInstallationExists_reactivating(S, c, t) ==
  IF \E r \in S.tenants : r.company_id = c
  THEN [S EXCEPT !.tenants =
          {IF r.company_id = c THEN [r EXCEPT !.status = "active"] ELSE r :
             r \in S.tenants}]
  ELSE LET iid == "auto_" \o ToString(t)
       IN IF \E r \in S.tenants : r.installation_id = iid THEN S
          ELSE [S EXCEPT !.tenants =
                  S.tenants \cup {Tenant(c, "Company " \o c, "active", t, t, iid,
                                          NULL, NULL)}]

\* the INSERT of ensureInstallationExists into a table without
\* UNIQUE(whop_company_id)
ensureInstallationExists_unconstrained(S, c, t) ==
  LET iid == "auto_" \o ToString(t)
  IN IF \E r \in S.tenants : r.installation_id = iid THEN S
     ELSE [S EXCEPT !.tenants =
             S.tenants \cup {Tenant(c, "Company " \o c, "active", t, t, iid,
                                     NULL, NULL)}]

\* ensureInstallationExists: SELECT, then INSERT if no row was found
ensureInstallationExists(S, c, t) ==
  IF \E r \in S.tenants : r.company_id = c THEN S
  ELSE LET iid == "auto_" \o ToString(t)
       IN IF \E r \in S.tenants : r.installation_id = iid THEN S
          ELSE [S EXCEPT !.tenants =
                  S.tenants \cup {Tenant(c, "Company " \o c, "active", t, t, iid,
                                          NULL, NULL)}]

\* question -> answer of the custom_field_responses array of the API answer
RECURSIVE ResponsesOf(_)
ResponsesOf(fields) ==
  IF fields = <<>> THEN <<>>
  ELSE LET f == Head(fields)
       IN IF Truthy(F(f, "question")) /\ Truthy(F(f, "answer"))
          THEN ResponsesOf(Tail(fields)) @@ (f.question :> f.answer)
          ELSE ResponsesOf(Tail(fields))

\* the member row written by INSERT ... ON CONFLICT (whop_membership_id)
UpsertApp(old, e, un, n, pic, cf, t) ==
  [old EXCEPT !.email = e,
              !.username = un,
              !.name = n,
              !.profile_picture_url = pic,
              !.custom_fields = cf,
              !.status = "active",
              !.updated_at = t]

\* INSERT INTO members ... ON CONFLICT (membership_id) DO UPDATE, under
\* UNIQUE(membership_id) and UNIQUE(company_id, user_id); a violation of the
\* second constraint is an error that writes nothing
InsertByMembership(S, c, u, m, e, un, n, pic, cf, t) ==
  IF \E r \in S.members : r.membership_id = m
  THEN [S EXCEPT !.members =
          {IF r.membership_id = m THEN UpsertApp(r, e, un, n, pic, cf, t) ELSE r :
             r \in S.members}]
  ELSE IF \E r \in S.members : r.company_id = c /\ r.user_id = u
  THEN S
  ELSE [S EXCEPT !.members =
          S.members \cup {Member(c, u, m, e, n, un, pic, cf, "active", t, t)}]

handleAppMembershipValid(S, r, apiKey, t) ==
  IF ~Has(r.body, "data") THEN S
  ELSE
    LET eventData == r.body["data"]
        userId == OrElse(F(eventData, "user_id"), F(UserObj(eventData), "id"))
        membershipId == F(eventData, "id")
        membershipData == Sub(r.api, "membership")
        companyId == F(membershipData, "company_buyer_id")
        S1 == ensureInstallationExists(S, companyId, t)
        waitlistResponses ==
          IF Has(membershipData, "custom_field_responses")
          THEN ResponsesOf(membershipData["custom_field_responses"])
          ELSE <<>>
        userData == Sub(r.api, "user")
    IN IF ~Truthy(userId) \/ ~Truthy(membershipId) THEN S
       ELSE IF ~Truthy(apiKey) THEN S
       ELSE IF ~Has(r.api, "membership") THEN S
       ELSE IF ~Truthy(companyId) THEN S
       ELSE InsertByMembership(S1, companyId, userId, membershipId,
              FirstTruthy(<<F(userData, "email")>>),
              FirstTruthy(<<F(userData, "username")>>),
              FirstTruthy(<<F(userData, "name"), F(userData, "display_name")>>),
              FirstTruthy(<<F(userData, "profile_picture_url")>>),
              waitlistResponses, t)

handleAppMembershipInvalid(S, r, t) ==
  IF ~Has(r.body, "data") THEN S
  ELSE
    LET membershipId == F(r.body["data"], "id")
    IN [S EXCEPT !.members =
          {IF membershipId # NULL /\ x.membership_id = membershipId
           THEN [x EXCEPT !.status = "inactive", !.updated_at = t]
           ELSE x : x \in S.members}]

\* INSERT INTO app_installations ... ON CONFLICT (whop_company_id) DO UPDATE
handleAppInstalled(S, r, t) ==
  IF ~Has(r.body, "data") THEN S
  ELSE
    LET c == F(r.body["data"], "company_id")
        iid == F(r.body["data"], "installation_id")
    IN IF c = NULL \/ iid = NULL THEN S
       ELSE IF \E x \in S.tenants : x.installation_id = iid /\ x.company_id # c
       THEN S
       ELSE IF \E x \in S.tenants : x.company_id = c
       THEN [S EXCEPT !.tenants =
               {IF x.company_id = c
                THEN [x EXCEPT !.installation_id = iid, !.status = "active",
                               !.installed_at = t]
                ELSE x : x \in S.tenants}]
       ELSE [S EXCEPT !.tenants =
               S.tenants \cup {Tenant(c, NULL, "active", t, t, iid, NULL, NULL)}]

handleAppUninstalled(S, r, t) ==
  IF ~Has(r.body, "data") THEN S
  ELSE
    LET c == F(r.body["data"], "company_id")
    IN [S EXCEPT !.tenants =
          {IF c # NULL /\ x.company_id = c THEN [x EXCEPT !.status = "inactive"]
           ELSE x : x \in S.tenants}]

AppValidKinds == {"app_membership.went_valid", "membership.went_valid"}
AppInvalidKinds == {"app_membership.went_invalid", "membership.went_invalid"}
AppInstalledKinds == {"app.installed", "app_installed"}
AppUninstalledKinds == {"app.uninstalled", "app_uninstalled"}

\* app.post('/webhook/whop') of the app server: [store, status]
WebhookAppResult(S, r, apiKey, t) ==
  LET eventType == OrElse(F(r.body, "action"), F(r.body, "type"))
  IN [status |-> 200,
      store |->
        IF eventType \in AppValidKinds THEN handleAppMembershipValid(S, r, apiKey, t)
        ELSE IF eventType \in AppInvalidKinds THEN handleAppMembershipInvalid(S, r, t)
        ELSE IF eventType \in AppInstalledKinds THEN handleAppInstalled(S, r, t)
        ELSE IF eventType \in AppUninstalledKinds THEN handleAppUninstalled(S, r, t)
        ELSE S]

(***************************************************************************)
(* Native app server (src/unnamed/part_000).                               *)
(*                                                                         *)
(* An HMAC digest is the pair of its key and its message: two digests are  *)
(* equal exactly when both are.  A signature is a digest with the number   *)
(* of bytes its hex text decodes to.                                       *)
(***************************************************************************)
Hmac(secret, msg) == [key |-> secret, msg |-> msg]

DigestBytes == 32

Signature(digest, bytes) == [digest |-> digest, bytes |-> bytes]

\* the raw body is JSON text unless marked as unparsable
ParsesAsJson(b) == ~Has(b, "#malformed")

\* the signature check of the native webhook handler: TRUE if it lets the
\* request through.  The header is the record of its t= and v1= parts.
SignatureAccepted_p000(r, secret) ==
  IF ~Truthy(secret) THEN TRUE
  ELSE IF ~Has(r.headers, "x-whop-signature") THEN FALSE
  ELSE LET h == r.headers["x-whop-signature"]
       IN IF ~Has(h, "t") \/ ~Has(h, "v1") THEN FALSE
          ELSE LET expected == Signature(Hmac(secret, <<h["t"], r.body>>), DigestBytes)
               IN h["v1"].bytes = expected.bytes /\ h["v1"] = expected

\* { ...a, ...b }
Spread(a, b) == b @@ a

CustomFields_p000(data) ==
  LET base == FirstObject(data, <<"custom_fields", "custom_field_responses",
                                  "metadata">>)
      withForm == Spread(base, Sub(data, "form_responses"))
  IN Spread(withForm, Sub(data, "checkout_custom_fields"))

\* product?.business_id || data.page_id || data.company_id
CompanyId_p000(data) ==
  FirstTruthy(<<F(Sub(data, "product"), "business_id"), F(data, "page_id"),
                F(data, "company_id")>>)

\* INSERT INTO whop_members ... ON CONFLICT (membership_id) DO UPDATE, under
\* UNIQUE(membership_id) and UNIQUE(company_id, user_id)
handleMembershipValid_p000(S, body, t) ==
  IF ~Has(body, "data") THEN S
  ELSE
    LET data == body["data"]
        user == UserObj(data)
        membershipId == F(data, "id")
        userId == OrElse(F(user, "id"), F(data, "user_id"))
        companyId == CompanyId_p000(data)
        e == FirstTruthy(<<F(user, "email")>>)
        un == FirstTruthy(<<F(user, "username")>>)
        n == FirstTruthy(<<F(user, "name"), F(user, "display_name")>>)
        pic == FirstTruthy(<<F(user, "profile_pic_url"),
                             F(user, "profile_picture_url")>>)
        cf == CustomFields_p000(data)
    IN IF ~Truthy(userId) \/ ~Truthy(membershipId) \/ ~Truthy(companyId) THEN S
       ELSE IF \E x \in S.members : x.membership_id = membershipId
       THEN [S EXCEPT !.members =
               {IF x.membership_id = membershipId
                THEN [x EXCEPT !.email = e, !.username = un, !.name = n,
                               !.profile_picture_url = pic, !.custom_fields = cf,
                               !.status = "active", !.updated_at = t]
                ELSE x : x \in S.members}]
       ELSE IF \E x \in S.members : x.company_id = companyId /\ x.user_id = userId
       THEN S
       ELSE [S EXCEPT !.members =
               S.members \cup {Member(companyId, userId, membershipId, e, n, un,
                                      pic, cf, "active", t, t)}]

handleMembershipInvalid_p000(S, body, t) ==
  IF ~Has(body, "data") THEN S
  ELSE
    LET membershipId == F(body["data"], "id")
    IN [S EXCEPT !.members =
          {IF membershipId # NULL /\ x.membership_id = membershipId
           THEN [x EXCEPT !.status = "inactive", !.updated_at = t]
           ELSE x : x \in S.members}]

\* app.post('/webhook/whop') of the native server: [store, status]
WebhookNativeResult(S, r, secret, t) ==
  IF ~SignatureAccepted_p000(r, secret) THEN [store |-> S, status |-> 401]
  ELSE IF ~ParsesAsJson(r.body) THEN [store |-> S, status |-> 400]
  ELSE
    LET action == F(r.body, "action")
    IN [status |-> 200,
        store |->
          IF action \in AppValidKinds THEN handleMembershipValid_p000(S, r.body, t)
          ELSE IF action \in AppInvalidKinds
            THEN handleMembershipInvalid_p000(S, r.body, t)
          ELSE S]

(***************************************************************************)
(* Slug-aware server (src/unnamed/part_001): its webhook.                  *)
(***************************************************************************)
\* lower-casing, on the identifiers of the model
Lower(s) == IF s = "BIZ_1" THEN "biz_1" ELSE s

\* name ILIKE '%' || identifier || '%', for the names 'Company <id>' the
\* webhook gives and the names '<slug> Community' of the directories created
\* on a first visit
ILike(name, identifier) ==
  \E c \in {"biz_1", "biz_2", "biz_", "BIZ_1", WS, "acme"} :
    /\ name \in {"Company " \o c, c \o " Community"}
    /\ \/ Lower(identifier) = Lower(c)
       \/ Lower(identifier) = "biz_" /\ StartsWithBiz(Lower(c))

\* a lookup that takes any row matching by id, slug or name
findCompanyInDatabase_anyMatch(S, identifier) ==
  IF ~Truthy(identifier) THEN {}
  ELSE {x \in S.tenants : \/ x.company_id = identifier
                           \/ x.company_slug = identifier
                           \/ ILike(x.company_name, identifier)}

\* the rows findCompanyInDatabase may return; {} for null
findCompanyInDatabase(S, identifier) ==
  LET byId == {x \in S.tenants : x.company_id = identifier}
      bySlug == {x \in S.tenants : x.company_slug = identifier}
      byName == {x \in S.tenants : ILike(x.company_name, identifier)}
  IN IF ~Truthy(identifier) THEN {}
     ELSE IF byId # {} THEN byId
     ELSE IF bySlug # {} THEN bySlug
     ELSE byName

handleMembershipValid_p001(S, companyId, data, t) ==
  LET userId == UserIdOrUser(data)
      S1 == IF findCompanyInDatabase(S, companyId) = {}
            THEN [S EXCEPT !.tenants =
                    S.tenants \cup {Tenant(companyId, "Company " \o companyId,
                                           "active", t, t, NULL, NULL, NULL)}]
            ELSE S
      userName == FirstTruthy(<<F(data, "name"), F(data, "display_name"),
                                F(data, "user_name")>>)
      userEmail == FirstTruthy(<<F(data, "email"), F(data, "user_email")>>)
      hit == {x \in S.members : x.user_id = userId /\ x.company_id = companyId}
  IN IF ~Truthy(userId) THEN S
     ELSE IF hit # {}
     THEN [S1 EXCEPT !.members =
             {IF x \in hit
              THEN [x EXCEPT !.email = Coalesce(userEmail, x.email),
                             !.name = Coalesce(userName, x.name),
                             !.status = "active",
                             !.updated_at = t]
              ELSE x : x \in S.members}]
     ELSE [S1 EXCEPT !.members =
             S.members \cup
               {Member(companyId, userId, NULL, userEmail, userName, NULL, NULL,
                       <<>>, "active", t, t)}]

handleMembershipInvalid_p001(S, companyId, data, t) ==
  LET userId == UserIdOrUser(data)
  IN IF ~Truthy(userId) THEN S
     ELSE [S EXCEPT !.members =
             {IF x.user_id = userId /\ x.company_id = companyId
              THEN [x EXCEPT !.status = "inactive", !.updated_at = t]
              ELSE x : x \in S.members}]

FixedValidKinds == {"membership_went_valid", "membership.went_valid"}
FixedInvalidKinds == {"membership_went_invalid", "membership.went_invalid"}

\* data.page_id || data.company_id || data.business_id
CompanyId_p001(data) ==
  FirstTruthy(<<F(data, "page_id"), F(data, "company_id"), F(data, "business_id")>>)

\* the switch over the action
Dispatch_p001(S, companyId, action, data, t) ==
  IF action \in FixedValidKinds
    THEN handleMembershipValid_p001(S, companyId, data, t)
  ELSE IF action \in FixedInvalidKinds
    THEN handleMembershipInvalid_p001(S, companyId, data, t)
  ELSE S

\* a handler that attributes a delivery without company id to a stored tenant
WebhookFixedResult_guessing(S, r, t) ==
  LET action == F(r.body, "action")
      data == Sub(r.body, "data")
      known == {x.company_id : x \in S.tenants}
      companyId == IF Truthy(CompanyId_p001(data)) THEN CompanyId_p001(data)
                   ELSE IF known # {} THEN CHOOSE c \in known : TRUE
                   ELSE NULL
  IN IF ~Truthy(action) \/ ~Has(r.body, "data") THEN [store |-> S, status |-> 400]
     ELSE IF ~Truthy(companyId) THEN [store |-> S, status |-> 400]
     ELSE [status |-> 200,
           store |-> Dispatch_p001(S, companyId, action, data, t)]

\* app.post('/webhook/whop') of part_001: [store, status]
WebhookFixedResult(S, r, t) ==
  LET action == F(r.body, "action")
      data == Sub(r.body, "data")
      companyId == CompanyId_p001(data)
  IN IF ~Truthy(action) \/ ~Has(r.body, "data") THEN [store |-> S, status |-> 400]
     ELSE IF ~Truthy(companyId) THEN [store |-> S, status |-> 400]
     ELSE [status |-> 200,
           store |-> Dispatch_p001(S, companyId, action, data, t)]

(***************************************************************************)
(* Group server (src/unnamed/part_002).  Its tenants are registered groups,*)
(* each with its own webhook secret.                                       *)
(***************************************************************************)
WaitlistRow(c, e, u, responses, st, t) ==
  [company_id |-> c, user_email |-> e, user_id |-> u, responses |-> responses,
   status |-> st, submitted_at |-> t]

\* POST /api/register-group: INSERT INTO groups ... ON CONFLICT (whop_company_id)
RegisterGroupResult(S, r, t) ==
  LET c == F(r.body, "whop_company_id")
      name == F(r.body, "group_name")
      sec == F(r.body, "webhook_secret")
  IN IF c = NULL \/ name = NULL THEN [store |-> S, status |-> 500]
     ELSE IF \E x \in S.tenants : x.company_id = c
     THEN [status |-> 200,
           store |-> [S EXCEPT !.tenants =
                        {IF x.company_id = c
                         THEN [x EXCEPT !.company_name = name,
                                        !.webhook_secret = sec]
                         ELSE x : x \in S.tenants}]]
     ELSE [status |-> 200,
           store |-> [S EXCEPT !.tenants =
                        S.tenants \cup
                          {Tenant(c, name, "active", t, t, NULL, sec, NULL)}]]

\* signature.replace('sha256=', '')
StripPrefix(h) == Signature(h.digest, h.bytes)

\* verifyWebhookSignature: "throws" when the two buffers differ in length
verifyWebhookSignature(payload, signature, secret) ==
  LET expected == Signature(Hmac(secret, payload), DigestBytes)
  IN IF signature.bytes # expected.bytes THEN "throws"
     ELSE IF signature = expected THEN "true" ELSE "false"

\* indices of the waitlist rows the lookup of handleMembershipValid selects
WaitlistHits(S, c, userId, userEmail) ==
  {i \in 1..Len(S.waitlist) :
     /\ S.waitlist[i].company_id = c
     /\ \/ userId # NULL /\ S.waitlist[i].user_id = userId
        \/ userEmail # NULL /\ S.waitlist[i].user_email = userEmail}

\* ORDER BY submitted_at DESC LIMIT 1: rows are appended in time order
MaxOf(I) == IF I = {} THEN 0 ELSE CHOOSE i \in I : \A j \in I : j <= i

handleMembershipValid_p002(S, r, companyId, t) ==
  IF ~Has(r.body, "data") THEN S
  ELSE
    LET data == r.body["data"]
        user == UserObj(data)
        userId == OrElse(F(data, "user_id"), F(user, "id"))
        userEmail == F(user, "email")
        userName == OrElse(F(user, "username"), F(user, "name"))
        membershipData == Sub(r.api, "membership")
        fromApi == Spread(Sub(membershipData, "custom_fields_responses"),
                          Sub(membershipData, "custom_fields_responses_v2"))
        row == MaxOf(WaitlistHits(S, companyId, userId, userEmail))
        waitlistResponses ==
          IF DOMAIN fromApi = {} /\ row # 0 THEN S.waitlist[row].responses
          ELSE fromApi
        hit == {x \in S.members : x.company_id = companyId /\ x.user_id = userId}
        written ==
          IF hit # {}
          THEN {IF x \in hit
                THEN [x EXCEPT !.email = userEmail, !.name = userName,
                               !.custom_fields = waitlistResponses,
                               !.status = "active", !.joined_at = t]
                ELSE x : x \in S.members}
          ELSE S.members \cup
                 {Member(companyId, userId, NULL, userEmail, userName, NULL,
                         NULL, waitlistResponses, "active", t, NULL)}
    IN IF userId = NULL THEN S
       ELSE [S EXCEPT
               !.members = written,
               !.waitlist =
                  IF row = 0 THEN S.waitlist
                  ELSE [S.waitlist EXCEPT ![row].status = "approved"]]

handleMembershipInvalid_p002(S, r, companyId) ==
  IF ~Has(r.body, "data") THEN S
  ELSE
    LET data == r.body["data"]
        userId == OrElse(F(data, "user_id"), F(UserObj(data), "id"))
    IN [S EXCEPT !.members =
          {IF userId # NULL /\ x.company_id = companyId /\ x.user_id = userId
           THEN [x EXCEPT !.status = "inactive"]
           ELSE x : x \in S.members}]

handleWaitlistSubmission(S, r, companyId, t) ==
  IF ~Has(r.body, "data") THEN S
  ELSE
    LET data == r.body["data"]
        userId == OrElse(F(data, "user_id"), F(UserObj(data), "id"))
        userEmail == F(UserObj(data), "email")
        responses == FirstObject(data, <<"responses", "answers">>)
    IN [S EXCEPT !.waitlist =
          Append(S.waitlist,
                 WaitlistRow(companyId, userEmail, userId, responses, "pending", t))]

\* req.body.data?.company_id || req.body.company_id
CompanyId_p002(body) ==
  OrElse(F(Sub(body, "data"), "company_id"), F(body, "company_id"))

\* app.post('/webhook/whop') of part_002: [store, status]
WebhookGroupResult(S, r, t) ==
  LET companyId == CompanyId_p002(r.body)
      group == {x \in S.tenants : x.company_id = companyId}
      webhookSecret == (CHOOSE x \in group : TRUE).webhook_secret
      verdict ==
        IF Truthy(webhookSecret) /\ Has(r.headers, "x-whop-signature")
        THEN verifyWebhookSignature(r.body,
                                    StripPrefix(r.headers["x-whop-signature"]),
                                    webhookSecret)
        ELSE "true"
      eventType == F(r.body, "type")
  IN IF ~Truthy(companyId) THEN [store |-> S, status |-> 400]
     ELSE IF group = {} THEN [store |-> S, status |-> 404]
     ELSE IF verdict = "throws" THEN [store |-> S, status |-> 500]
     ELSE IF verdict = "false" THEN [store |-> S, status |-> 401]
     ELSE [status |-> 200,
           store |->
             IF eventType = "membership_went_valid"
               THEN handleMembershipValid_p002(S, r, companyId, t)
             ELSE IF eventType = "membership_went_invalid"
               THEN handleMembershipInvalid_p002(S, r, companyId)
             ELSE IF eventType = "waitlist_submission"
               THEN handleWaitlistSubmission(S, r, companyId, t)
             ELSE S]

(***************************************************************************)
(* Requests.  A request is [headers, query, body, api]: api holds what the *)
(* platform API answers while the request is handled (NULL: the call       *)
(* fails).  Opt builds an optional string property.                        *)
(***************************************************************************)
Opt(k, v) == IF v = NULL THEN <<>> ELSE (k :> v)

Request(h, q, b, a) == [headers |-> h, query |-> q, body |-> b, api |-> a]

NoRequest == Request(<<>>, <<>>, <<>>, <<>>)

Companies == {"biz_1", "biz_2"}
Users == {"u1", "u2"}
Memberships == {"mem1", "mem2"}

\* profiles a payload may carry at the top level of data
Profiles ==
  { <<>>,
    [email |-> "e1", name |-> "n1", username |-> "un1",
     custom_fields |-> [q1 |-> "a"]],
    [email |-> "e2", metadata |-> [q2 |-> "b"]] }

\* the (company, member) pairs of the deliveries
Keys == {<<"biz_1", "u1">>, <<"biz_1", "u2">>, <<"biz_2", "u1">>}

\* event kinds the model delivers to the main server
MainKinds ==
  {"membership.went_valid", "user_joined", "membership.went_invalid",
   "membership_updated", "payment.succeeded"}

\* a delivery of kind k for key cu with membership m and profile p
MainDelivery(k, cu, m, p) ==
  Request(<<>>, <<>>,
          [action |-> k,
           data |-> ("company_id" :> cu[1]) @@ ("user_id" :> cu[2])
                      @@ ("id" :> m) @@ p],
          <<>>)

\* deliveries of the membership life cycle
MainLifecycleRequests ==
  { MainDelivery("membership.went_valid", cu, m, p) :
      cu \in Keys, m \in Memberships, p \in Profiles }
  \cup
  { MainDelivery(k, cu, "mem1", <<>>) :
      k \in {"user_joined", "membership.went_invalid"}, cu \in Keys }
  \cup
  { MainDelivery("membership_updated", cu, "mem1", p) :
      cu \in Keys, p \in Profiles }
  \cup
  { MainDelivery("payment.succeeded", <<"biz_1", "u1">>, "mem1", p @@ f) :
      p \in Profiles, f \in {<<>>, [status |-> "completed", valid |-> "true"]} }

\* deliveries that differ in where, and whether, they name the company
MainResolutionRequests ==
  { Request(h, <<>>,
            [action |-> "membership.went_valid",
             data |-> d @@ ("user_id" :> "u1") @@ ("id" :> "mem1")],
            <<>>) :
      h \in { <<>>, ("x-company-id" :> "biz_1") },
      d \in { <<>>, [company_id |-> "biz_2"], [page_id |-> WS] } }
  \cup
  { Request(("x-page-id" :> PaddedT1)
              @@ ("referer" :> Url("acme.whop.com", <<>>, FALSE, <<>>)),
            <<>>,
            [event_type |-> "membership_created",
             data |-> [company_id |-> "biz_2", user_id |-> "u1"]],
            <<>>),
    Request(("referer" :> Url("acme.whop.com", <<>>, FALSE, <<>>)), <<>>,
            [action |-> "user.left", user |-> [str |-> "u1"]], <<>>),
    Request(("referer" :> Url("www.whop.com", <<>>, TRUE, <<>>)), <<>>,
            [action |-> "membership.went_valid",
             data |-> [user_id |-> "u1", id |-> "mem1"]], <<>>) }

\* deliveries that lack the event kind or the member id
MainIncompleteRequests ==
  { Request(<<>>, <<>>, [data |-> [company_id |-> "biz_1", user_id |-> "u1"]],
            <<>>),
    Request(<<>>, <<>>,
            [action |-> "payment.succeeded", data |-> [user_id |-> "u1"]], <<>>) }
  \cup
  { Request(<<>>, <<>>,
            [action |-> k, data |-> [company_id |-> "biz_1", id |-> "mem1"]],
            <<>>) : k \in MainKinds }

\* deliveries that carry mappings in two of the locations custom fields are
\* read from, or the profile in its second spellings
MainMixedRequests ==
  { MainDelivery("membership.went_valid", <<"biz_2", "u1">>, "mem1",
                 [custom_fields |-> [q1 |-> "a"], metadata |-> [q2 |-> "b"]]),
    \* an update that carries the profile in the user_ spellings
    MainDelivery("membership_updated", <<"biz_1", "u1">>, "mem1",
                 [user_email |-> "e3", user_username |-> "un3"]) }

MainRequests ==
  MainLifecycleRequests \cup MainResolutionRequests \cup MainIncompleteRequests
    \cup MainMixedRequests

AppMemberships == {"mem1", "mem2", "mem3"}

\* what the membership endpoint of the platform API answers for membership m:
\* a membership belongs to one company
MembershipAnswer(m) ==
  CASE m = "mem1" ->
         [company_buyer_id |-> "biz_1",
          custom_field_responses |-> << [question |-> "q1", answer |-> "a"] >>]
    [] m = "mem2" -> [company_buyer_id |-> "biz_1"]
    [] OTHER -> [company_buyer_id |-> "biz_2"]

\* what the user endpoint of the platform API answers
UserAnswers ==
  { [email |-> "e1", username |-> "un1", name |-> "n1",
     profile_picture_url |-> "pic1"],
    [email |-> "e2"] }

\* the API answers during one request about membership m: each call may fail
ApiAnswers(m) ==
  { <<>>, [membership |-> MembershipAnswer(m)] }
  \cup { [membership |-> MembershipAnswer(m), user |-> ua] : ua \in UserAnswers }

AppDelivery(k, u, m, a) ==
  Request(<<>>, <<>>, [action |-> k, data |-> Opt("user_id", u) @@ Opt("id", m)], a)

AppRequests ==
  UNION { { AppDelivery("membership.went_valid", u, m, a) :
              u \in Users, a \in ApiAnswers(m) } : m \in AppMemberships }
  \cup
  { AppDelivery(k, "u1", m, <<>>) :
      k \in {"membership.went_invalid", "app_membership.went_invalid"},
      m \in {"mem1", "mem3"} }
  \cup
  { Request(<<>>, <<>>,
            [action |-> k,
             data |-> [company_id |-> "biz_1", installation_id |-> "inst1"]],
            <<>>) : k \in {"app.installed", "app.uninstalled"} }
  \cup
  \* the API no longer reports answers for mem1
  { AppDelivery("membership.went_valid", "u1", "mem1",
                [membership |-> [company_buyer_id |-> "biz_1"]]),
    AppDelivery("membership_went_valid", "u1", "mem1",
                [membership |-> MembershipAnswer("mem1")]),
    AppDelivery("app_membership.went_valid", NULL, "mem1",
                [membership |-> MembershipAnswer("mem1")]),
    AppDelivery("app_membership.went_valid", "u1", NULL, <<>>),
    AppDelivery("membership.went_invalid", "u1", NULL, <<>>),
    Request(<<>>, <<>>, [type |-> "membership.went_valid"], <<>>) }

\* the user object of a native delivery
NativeUsers ==
  { [id |-> "u1", email |-> "e1", username |-> "un1", name |-> "n1",
     profile_pic_url |-> "pic1"],
    [id |-> "u1"],
    [id |-> "u2", email |-> "e2", display_name |-> "n2"] }

NativeBody(k, c, user, m) ==
  [action |-> k,
   data |-> Opt("page_id", c) @@ Opt("id", m)
            @@ (IF user = <<>> THEN <<>> ELSE ("user" :> user))]

NativeBodies ==
  { NativeBody("membership.went_valid", c, u, m) :
      c \in Companies, u \in NativeUsers, m \in Memberships }
  \cup
  { NativeBody(k, NULL, <<>>, m) :
      k \in {"membership.went_invalid", "app_membership.went_invalid"},
      m \in Memberships }
  \cup
  { NativeBody("app_membership.went_valid", "biz_1", <<>>, "mem1"),
    NativeBody("membership.went_valid", "biz_1", [id |-> "u1"], NULL),
    NativeBody("membership.went_valid", NULL, [id |-> "u1"], "mem1"),
    NativeBody("membership.went_invalid", NULL, <<>>, NULL),
    NativeBody("payment.succeeded", "biz_1", [id |-> "u1"], "mem1"),
    [action |-> "membership.went_valid"],
    [data |-> [id |-> "mem1", page_id |-> "biz_1", user |-> [id |-> "u1"]]],
    [action |-> "membership.went_valid",
     data |-> [id |-> "mem2", user_id |-> "u2",
               product |-> [business_id |-> "biz_2"],
               custom_fields |-> [q1 |-> "a"],
               form_responses |-> [q1 |-> "b", q2 |-> "c"]]],
    [action |-> "membership.went_valid",
     data |-> [id |-> "mem1", user_id |-> "u1", page_id |-> "biz_2",
               custom_fields |-> [q1 |-> "a"],
               metadata |-> [q2 |-> "b"]]],
    ("#malformed" :> "true") }

NativeSecret == "s3cret"

\* the signature header a sender holding key writes over body at time ts
SignedBy(key, ts, body) ==
  ("x-whop-signature" :>
     [t |-> ts, v1 |-> Signature(Hmac(key, <<ts, body>>), DigestBytes)])

\* requests that carry a missing, malformed or wrong signature
NativeForgedRequests ==
  LET b == NativeBody("membership.went_valid", "biz_1", [id |-> "u1"], "mem1")
      d == NativeBody("membership.went_invalid", NULL, <<>>, "mem1")
  IN { Request(<<>>, <<>>, b, <<>>),
       Request(<<>>, <<>>, d, <<>>),
       Request(SignedBy("guess", "100", b), <<>>, b, <<>>),
       Request(SignedBy(NativeSecret, "100", d), <<>>, b, <<>>),
       Request(("x-whop-signature" :>
                  [t |-> "100",
                   v1 |-> Signature(Hmac(NativeSecret, <<"100", b>>), 2)]),
               <<>>, b, <<>>),
       Request(("x-whop-signature" :>
                  [v1 |-> Signature(Hmac(NativeSecret, <<"100", b>>), DigestBytes)]),
               <<>>, b, <<>>) }

NativeRequests ==
  { Request(SignedBy(NativeSecret, "100", b), <<>>, b, <<>>) : b \in NativeBodies }
  \cup NativeForgedRequests

FixedDelivery(k, c, u, p) ==
  Request(<<>>, <<>>,
          [action |-> k, data |-> Opt("page_id", c) @@ Opt("user_id", u) @@ p],
          <<>>)

FixedProfiles == { <<>>, [email |-> "e1", name |-> "n1"], [email |-> "e2"] }

FixedRequests ==
  { FixedDelivery("membership.went_valid", c, u, p) :
      c \in Companies, u \in Users, p \in FixedProfiles }
  \cup
  { FixedDelivery("membership_went_invalid", c, u, <<>>) :
      c \in Companies, u \in Users }
  \cup
  { FixedDelivery("membership_went_valid", "biz_", "u1", <<>>),
    FixedDelivery("membership.went_valid", "acme", "u1", <<>>),
    FixedDelivery("membership.went_valid", WS, "u1", <<>>),
    FixedDelivery("membership.went_valid", NULL, "u1", [email |-> "e1"]),
    FixedDelivery("membership.went_invalid", NULL, "u1", <<>>),
    FixedDelivery("membership.went_valid", "biz_1", NULL, <<>>),
    FixedDelivery("membership.went_invalid", "biz_1", NULL, <<>>),
    FixedDelivery("payment.succeeded", "biz_1", "u1", [email |-> "e2"]),
    Request(<<>>, <<>>, [action |-> "membership.went_valid"], <<>>),
    Request(<<>>, <<>>, [data |-> [page_id |-> "biz_1", user_id |-> "u1"]], <<>>),
    Request(("x-company-id" :> "biz_1"), [company_id |-> "biz_1"],
            [action |-> "membership.went_valid", data |-> [user_id |-> "u1"]],
            <<>>),
    Request(<<>>, <<>>,
            [action |-> "membership.went_valid",
             data |-> [business_id |-> "biz_2", user |-> [str |-> "u2"],
                       display_name |-> "n2"]],
            <<>>) }

GroupSecret == "g-secret"

RegisterRequests ==
  { Request(<<>>, <<>>,
            [whop_company_id |-> c, group_name |-> "Group"]
              @@ Opt("webhook_secret", sec),
            <<>>) : c \in Companies, sec \in {NULL, GroupSecret} }
  \cup { Request(<<>>, <<>>, [whop_company_id |-> "biz_1"], <<>>) }

GroupUsers ==
  { [id |-> "u1", email |-> "e1", username |-> "un1"], [id |-> "u1"],
    [id |-> "u2", email |-> "e2", name |-> "n2"] }

GroupBody(k, c, user, extra) ==
  [type |-> k,
   data |-> Opt("company_id", c) @@ extra
            @@ (IF user = <<>> THEN <<>> ELSE ("user" :> user))]

GroupBodies ==
  { GroupBody("membership_went_valid", c, u, [id |-> "mem1"]) :
      c \in Companies, u \in GroupUsers }
  \cup
  { GroupBody("membership_went_invalid", c, u, <<>>) :
      c \in Companies, u \in {[id |-> "u1"], [id |-> "u2"]} }
  \cup
  { GroupBody("waitlist_submission", "biz_1", [id |-> "u1", email |-> "e1"],
              ("responses" :> [q1 |-> "a"])),
    GroupBody("waitlist_submission", "biz_1", [email |-> "e2"],
              ("answers" :> [q2 |-> "b"])),
    GroupBody("membership_went_valid", "biz_1", <<>>, [id |-> "mem1"]),
    GroupBody("membership_went_valid", NULL, [id |-> "u1"], [id |-> "mem1"]),
    GroupBody("membership.went_valid", "biz_1", [id |-> "u1", email |-> "e2"],
              [id |-> "mem1"]),
    [type |-> "membership_went_valid", company_id |-> "biz_1"] }

\* the x-whop-signature header a sender holding key writes over body
GroupSignedBy(key, body, bytes) ==
  ("x-whop-signature" :> [prefix |-> "sha256=", digest |-> Hmac(key, body),
                          bytes |-> bytes])

GroupForgedRequests ==
  LET b == GroupBody("membership_went_valid", "biz_1", [id |-> "u2"],
                     [id |-> "mem2"])
      d == GroupBody("membership_went_invalid", "biz_1", [id |-> "u1"], <<>>)
  IN { Request(<<>>, <<>>, b, <<>>),
       Request(<<>>, <<>>, d, <<>>),
       Request(GroupSignedBy("guess", b, DigestBytes), <<>>, b, <<>>),
       Request(GroupSignedBy(GroupSecret, d, DigestBytes), <<>>, b, <<>>),
       Request(GroupSignedBy(GroupSecret, b, 2), <<>>, b, <<>>) }

GroupRequests ==
  { Request(GroupSignedBy(GroupSecret, b, DigestBytes), <<>>, b, a) :
      b \in GroupBodies,
      a \in { <<>>, [membership |-> [custom_fields_responses |-> [q3 |-> "c"]]] } }
  \cup GroupForgedRequests

(***************************************************************************)
(* The state machine.                                                      *)
(***************************************************************************)
Variants == {"main", "app", "native", "fixed", "group"}

EmptyStore == Store({}, {}, <<>>)

CurrentStore == Store(tenants, members, waitlist)

Env(secret, apiKey) == [WHOP_WEBHOOK_SECRET |-> secret, WHOP_API_KEY |-> apiKey]

\* the configurations a variant may run under
EnvsOf(v) ==
  IF v = "app" THEN {Env(NULL, "key"), Env(NULL, NULL)}
  ELSE IF v = "native" THEN {Env(NativeSecret, NULL), Env(NULL, NULL)}
  ELSE {Env(NULL, NULL)}

\* nothing read, no fault injected, the process up, no handler in flight,
\* no request failed so far
NoBody == <<>>

Quiet ==
  /\ out = NoBody
  /\ fault = "none"
  /\ alive = TRUE
  /\ sent = 0
  /\ procs = <<>>
  /\ failed = FALSE
  /\ handled = NoBody

Init ==
  /\ variant \in Variants
  /\ env \in EnvsOf(variant)
  /\ tenants = {}
  /\ members = {}
  /\ waitlist = <<>>
  /\ now = 0
  /\ op = "none"
  /\ req = NoRequest
  /\ resp = 0
  /\ pre = EmptyStore
  /\ resolved = NULL
  /\ Quiet

\* one request answered: the store and the response it leaves
Answer(o, r, res) ==
  /\ op' = o
  /\ tenants' = res.store.tenants
  /\ members' = res.store.members
  /\ waitlist' = res.store.waitlist
  /\ req' = r
  /\ resp' = res.status
  /\ pre' = CurrentStore
  /\ now' = now + 1
  /\ UNCHANGED <<variant, env, resolved, out, fault, alive, sent, procs, failed,
                 handled>>

WebhookMain ==
  /\ variant = "main"
  /\ now < MaxRequests
  /\ \E r \in MainRequests :
       Answer("webhook", r, WebhookMainResult(CurrentStore, r, now + 1))

WebhookApp ==
  /\ variant = "app"
  /\ now < MaxRequests
  /\ \E r \in AppRequests :
       Answer("webhook", r, WebhookAppResult(CurrentStore, r, env.WHOP_API_KEY, now + 1))

WebhookNative ==
  /\ variant = "native"
  /\ now < MaxRequests
  /\ \E r \in NativeRequests :
       Answer("webhook", r, WebhookNativeResult(CurrentStore, r, env.WHOP_WEBHOOK_SECRET,
                                     now + 1))

WebhookFixed ==
  /\ variant = "fixed"
  /\ now < MaxRequests
  /\ \E r \in FixedRequests :
       Answer("webhook", r, WebhookFixedResult(CurrentStore, r, now + 1))

WebhookGroup ==
  /\ variant = "group"
  /\ now < MaxRequests
  /\ \E r \in GroupRequests :
       Answer("webhook", r, WebhookGroupResult(CurrentStore, r, now + 1))

RegisterGroup ==
  /\ variant = "group"
  /\ now < MaxRequests
  /\ \E r \in RegisterRequests :
       Answer("register", r, RegisterGroupResult(CurrentStore, r, now + 1))

Next ==
  \/ WebhookMain
  \/ WebhookApp
  \/ WebhookNative
  \/ WebhookFixed
  \/ WebhookGroup
  \/ RegisterGroup

Spec == Init /\ [][Next]_vars

(***************************************************************************)
(* The resolvers on their own: one request resolved per step.              *)
(***************************************************************************)
Referers ==
  { Url("whop.com", <<"acme">>, TRUE, <<>>),
    Url("whop.com", <<"acme">>, FALSE, <<>>),
    Url("acme.whop.com", <<>>, FALSE, <<>>),
    Url("www.whop.com", <<>>, TRUE, <<>>),
    Url("abcd1234.apps.whop.com", <<>>, FALSE, <<>>),
    Url("apps.apps.whop.com", <<>>, TRUE, <<>>),
    Url("whop.com", <<"acme", "directory-app", "app">>, TRUE, <<>>),
    Url("example.com", <<"biz_2">>, FALSE, <<>>),
    Url("whop.com", <<"hub">>, FALSE, << <<"company_id", "biz_2">> >>),
    Url("example.com", <<"acme", "tools">>, FALSE, <<>>) }

\* bodies whose top-level, nested and product fields name different tenants
ResolveBodies ==
  { [company_id |-> "biz_1", data |-> [company_id |-> "biz_2"]],
    [company_id |-> WS,
     data |-> [company_id |-> "biz_2", product |-> [company_id |-> "biz_1"]]],
    [data |-> [page_id |-> WS, product |-> [company_id |-> "biz_1"]]] }

ResolveRequests ==
  { Request(Opt("x-company-id", h) @@ Opt("x-page-id", g)
              @@ (IF u = <<>> THEN <<>> ELSE ("referer" :> u)),
            Opt("company_id", q), <<>>, <<>>) :
      h \in {NULL, "biz_1", "biz_2", WS, PaddedT1},
      g \in {NULL, "biz_2"},
      u \in Referers \cup {<<>>},
      q \in {NULL, "biz_1"} }
  \cup
  { Request(Opt("x-company-id", h)
              @@ (IF u = <<>> THEN <<>> ELSE ("referer" :> u)),
            Opt("company_id", q), b, <<>>) :
      h \in {NULL, "biz_2", WS},
      u \in {<<>>, Url("whop.com", <<"acme">>, TRUE, <<>>)},
      q \in {NULL, WS, "biz_1"},
      b \in ResolveBodies }

InitResolve ==
  /\ variant \in {"main", "fixed"}
  /\ env = Env(NULL, NULL)
  /\ tenants = {}
  /\ members = {}
  /\ waitlist = <<>>
  /\ now = 0
  /\ op = "none"
  /\ req = NoRequest
  /\ resp = 0
  /\ pre = EmptyStore
  /\ resolved = NULL
  /\ Quiet

Resolve ==
  /\ \E r \in ResolveRequests :
       /\ req' = r
       /\ resolved' = IF variant = "main" THEN extractCompanyId(r)
                      ELSE extractCompanyId_p001(r)
  /\ op' = "resolve"
  /\ UNCHANGED <<variant, env, tenants, members, waitlist, now, resp, pre, out, fault,
               alive, sent, procs, failed, handled>>

NextResolve == Resolve

SpecResolve == InitResolve /\ [][NextResolve]_vars

(***************************************************************************)
(* Read paths.  A read request carries its path parameters in params; the  *)
(* JSON body of the response is kept in out.  A listing is the set of the  *)
(* rows it returns (ORDER BY joined_at is left out).                       *)
(***************************************************************************)
ReadRequest(p, h, q) == ("params" :> p) @@ Request(h, q, <<>>, <<>>)

\* const { status = 'active' } = req.query
StatusParam(r) == IF Has(r.query, "status") THEN r.query["status"] ELSE "active"

\* the columns of a member row a listing selects
Listed(x) ==
  [user_id |-> x.user_id, membership_id |-> x.membership_id, email |-> x.email,
   username |-> x.username, name |-> x.name, custom_fields |-> x.custom_fields,
   joined_at |-> x.joined_at, status |-> x.status]

\* res.json({ success: true, members, count })
ListingBody(rows) ==
  [success |-> TRUE, members |-> {Listed(x) : x \in rows},
   count |-> Cardinality(rows)]

ErrorBody == [success |-> FALSE, members |-> {}, count |-> 0]

\* GET /api/directory/:companyId of the app server
DirectoryAppResult(S, r) ==
  LET companyId == r.params["companyId"]
      status == StatusParam(r)
      installationCheck ==
        {i \in S.tenants : i.company_id = companyId /\ i.status = "active"}
  IN IF installationCheck = {}
     THEN [store |-> S, status |-> 404, body |-> ErrorBody]
     ELSE [store |-> S, status |-> 200,
           body |-> ListingBody({x \in S.members :
                                   x.company_id = companyId /\ x.status = status})]

\* GET /api/directory/:companyId of the native server
DirectoryNativeResult(S, r) ==
  LET companyId == r.params["companyId"]
      status == StatusParam(r)
  IN [store |-> S, status |-> 200,
      body |-> ListingBody({x \in S.members :
                              x.company_id = companyId /\ x.status = status})]

\* the INSERT of a company row without the SELECT that precedes it
InstallationOf_unguarded(S, companyId, t) ==
  IF ~Truthy(companyId) THEN [store |-> S, result |-> <<>>]
  ELSE [store |->
          [S EXCEPT !.tenants =
             S.tenants \cup {Tenant(companyId, generateCompanyName(companyId),
                                     "active", t, t, NULL, NULL, NULL)}],
        result |-> [isNewInstallation |-> TRUE, companyId |-> companyId]]

\* detectAndHandleNewInstallation: SELECT the company; UPDATE its
\* last_activity if it is there, INSERT it if not
InstallationOf(S, companyId, t) ==
  IF ~Truthy(companyId) THEN [store |-> S, result |-> <<>>]
  ELSE IF \E c \in S.tenants : c.company_id = companyId
  THEN [store |->
          [S EXCEPT !.tenants =
             {IF c.company_id = companyId THEN [c EXCEPT !.last_activity = t]
              ELSE c : c \in S.tenants}],
        result |-> [isNewInstallation |-> FALSE, companyId |-> companyId]]
  ELSE [store |->
          [S EXCEPT !.tenants =
             S.tenants \cup {Tenant(companyId, generateCompanyName(companyId),
                                     "active", t, t, NULL, NULL, NULL)}],
        result |-> [isNewInstallation |-> TRUE, companyId |-> companyId]]

detectAndHandleNewInstallation(S, r, t) == InstallationOf(S, extractCompanyId(r), t)

\* getAvailableCompanies: the active companies
getAvailableCompanies(S) ==
  {c.company_id : c \in {x \in S.tenants : x.status = "active"}}

\* GET /api/members/:companyId? of the main server
\* the rows the RIGHT JOIN of whop_members and whop_companies returns
MembersOfActive(S, companyId) ==
  {x \in S.members :
     /\ x.company_id = companyId
     /\ \E c \in S.tenants : c.company_id = companyId /\ c.status = "active"
     /\ Truthy(x.user_id)}

\* the answer once the installation detection has left inst: companyId is
\* the detected id, else the path parameter
MembersAnswer(inst, companyId) ==
  IF ~Truthy(companyId) \/ companyId = "auto"
  THEN [store |-> inst.store, status |-> 400,
        body |-> ErrorBody @@
                 [available_companies |-> getAvailableCompanies(inst.store)]]
  ELSE [store |-> inst.store, status |-> 200,
        body |-> ListingBody(MembersOfActive(inst.store, companyId)) @@
                 [company_id |-> companyId,
                  is_new_installation |->
                    IF inst.result # <<>> THEN inst.result.isNewInstallation
                    ELSE FALSE]]

MembersDetected(inst, param) ==
  MembersAnswer(inst, IF inst.result # <<>> THEN inst.result.companyId ELSE param)

MembersMainResult(S, r, t) ==
  MembersDetected(IF ~Truthy(F(r.params, "companyId"))
                     \/ F(r.params, "companyId") = "auto"
                  THEN detectAndHandleNewInstallation(S, r, t)
                  ELSE [store |-> S, result |-> <<>>],
                  F(r.params, "companyId"))

\* GET / of the main server: installation detection, then the page
ViewMainResult(S, r, t) ==
  [store |-> detectAndHandleNewInstallation(S, r, t).store, status |-> 200,
   body |-> [page |-> "index.html"]]

DirectoryRequests ==
  { ReadRequest([companyId |-> c], <<>>, Opt("status", s)) :
      c \in Companies, s \in {NULL, "active", "inactive"} }

\* headers a page view or an automatic members request arrives with
ViewHeaders ==
  { <<>>,
    ("x-company-id" :> "biz_1"),
    ("x-page-id" :> PaddedT1),
    ("referer" :> Url("www.whop.com", <<>>, TRUE, <<>>)),
    ("referer" :> Url("whop.com", <<"hub">>, FALSE, << <<"company_id", "biz_2">> >>)) }

MembersRequests ==
  { ReadRequest(Opt("companyId", p), <<>>, Opt("status", s)) :
      p \in {"biz_1", "biz_2"}, s \in {NULL, "active", "inactive"} }
  \cup
  { ReadRequest(Opt("companyId", p), h, <<>>) :
      p \in {NULL, "auto"}, h \in ViewHeaders }

ViewRequests ==
  { ReadRequest(<<>>, h, q) :
      h \in ViewHeaders, q \in {<<>>, [company_id |-> "biz_2"]} }

\* one read answered: the store, the status and the body it leaves
Reply(o, r, res) ==
  /\ op' = o
  /\ tenants' = res.store.tenants
  /\ members' = res.store.members
  /\ waitlist' = res.store.waitlist
  /\ req' = r
  /\ resp' = res.status
  /\ out' = res.body
  /\ pre' = CurrentStore
  /\ now' = now + 1
  /\ UNCHANGED <<variant, env, resolved, fault, alive, sent, procs, failed, handled>>

DirectoryApp ==
  /\ variant = "app"
  /\ now < MaxRequests
  /\ \E r \in DirectoryRequests :
       \E res \in {DirectoryAppResult(CurrentStore, r)} : Reply("directory", r, res)

DirectoryNative ==
  /\ variant = "native"
  /\ now < MaxRequests
  /\ \E r \in DirectoryRequests :
       \E res \in {DirectoryNativeResult(CurrentStore, r)} : Reply("directory", r, res)

MembersMain ==
  /\ variant = "main"
  /\ now < MaxRequests
  /\ \E r \in MembersRequests :
       \E res \in {MembersMainResult(CurrentStore, r, now + 1)} : Reply("members", r, res)

ViewMain ==
  /\ variant = "main"
  /\ now < MaxRequests
  /\ \E r \in ViewRequests :
       \E res \in {ViewMainResult(CurrentStore, r, now + 1)} : Reply("view", r, res)

InitRead ==
  /\ variant \in {"main", "app", "native"}
  /\ env \in {Env(NULL, "key"), Env(NULL, NULL)}
  /\ variant = "app" <=> env.WHOP_API_KEY = "key"
  /\ tenants = {}
  /\ members = {}
  /\ waitlist = <<>>
  /\ now = 0
  /\ op = "none"
  /\ req = NoRequest
  /\ resp = 0
  /\ pre = EmptyStore
  /\ resolved = NULL
  /\ Quiet

NextRead ==
  \/ WebhookMain
  \/ WebhookApp
  \/ WebhookNative
  \/ DirectoryApp
  \/ DirectoryNative
  \/ MembersMain
  \/ ViewMain

SpecRead == InitRead /\ [][NextRead]_vars

(***************************************************************************)
(* Store failures.  While a request is handled the store may work          *)
(* ("none"), reject every statement on the members table ("members"), or   *)
(* be unavailable, every statement failing ("down").  A failed statement   *)
(* throws; what becomes of the exception is read off the try/catch blocks  *)
(* of each handler.  Status 0 stands for no response: an exception that    *)
(* leaves an async route handler is an unhandled rejection, which ends the *)
(* process.                                                                *)
(***************************************************************************)
Faults == {"none", "members", "down"}

\* POST /webhook/whop of the main server: ensureCompanyExists and the three
\* handlers catch and log the errors of their statements
\* n is what the handler leaves when no statement fails
CaughtAndLogged(n, S, f) ==
  CASE f = "none" -> n
    [] f = "members" ->
         [status |-> n.status, store |-> [n.store EXCEPT !.members = S.members]]
    [] OTHER -> [status |-> n.status, store |-> S]

WebhookMainFaulty(S, r, t, f) == CaughtAndLogged(WebhookMainResult(S, r, t), S, f)

\* the listing query outside any try/catch: its error leaves the handler
MembersFailing_uncaught(n, param, S, f) ==
  IF f # "none" /\ n.status = 200
  THEN [store |-> n.store, status |-> 0, body |-> ErrorBody]
  ELSE n

\* GET /api/members/:companyId? of the main server: the detection and
\* getAvailableCompanies catch their errors, the listing is in try/catch
\* n is what the handler leaves when no statement fails
MembersFailing(n, param, S, f) ==
  CASE f = "none" -> n
    [] f = "members" ->
         IF n.status = 200
         THEN [store |-> n.store, status |-> 500, body |-> ErrorBody]
         ELSE [store |-> n.store, status |-> n.status,
               body |-> ErrorBody @@ [available_companies |-> {}]]
    [] OTHER ->
         IF ~Truthy(param) \/ param = "auto"
         THEN [store |-> S, status |-> 400,
               body |-> ErrorBody @@ [available_companies |-> {}]]
         ELSE [store |-> S, status |-> 500, body |-> ErrorBody]

MembersMainFaulty(S, r, t, f) ==
  MembersFailing(MembersMainResult(S, r, t), F(r.params, "companyId"), S, f)

\* POST /webhook/whop of the group server: the lookup of the group is in the
\* route's try/catch, the handlers catch the errors of their statements
\* n is what the handler leaves when no statement fails
GroupFailing(n, eventType, companyId, S, f) ==
  CASE f = "none" -> n
    [] f = "members" ->
         IF n.status = 200
            /\ eventType \in {"membership_went_valid", "membership_went_invalid"}
         THEN [store |-> S, status |-> 200]
         ELSE n
    [] OTHER ->
         IF ~Truthy(companyId) THEN [store |-> S, status |-> 400]
         ELSE [store |-> S, status |-> 500]

WebhookGroupFaulty(S, r, t, f) ==
  GroupFailing(WebhookGroupResult(S, r, t), F(r.body, "type"),
               CompanyId_p002(r.body), S, f)

\* POST /api/register-group: one statement on the groups table in try/catch
RegisterGroupFaulty(S, r, t, f) ==
  IF f = "down" THEN [store |-> S, status |-> 500]
  ELSE RegisterGroupResult(S, r, t)

\* the deliveries and reads the serving model sends
ServeMainWebhooks ==
  { MainDelivery("membership.went_valid", <<"biz_1", "u1">>, "mem1", p) :
      p \in Profiles }
  \cup
  { MainDelivery(k, <<"biz_1", "u1">>, "mem1", <<>>) :
      k \in {"membership.went_invalid", "membership_updated"} }
  \cup MainIncompleteRequests

ServeGroupWebhooks ==
  GroupForgedRequests
  \cup
  { Request(GroupSignedBy(GroupSecret, b, DigestBytes), <<>>, b, <<>>) :
      b \in { GroupBody("membership_went_valid", "biz_1", u, [id |-> "mem1"]) :
                u \in GroupUsers }
            \cup
            { GroupBody("membership_went_invalid", "biz_1", [id |-> "u1"], <<>>),
              GroupBody("waitlist_submission", "biz_1",
                        [id |-> "u1", email |-> "e1"], ("responses" :> [q1 |-> "a"])),
              GroupBody("payment.succeeded", "biz_1", [id |-> "u1"], <<>>) } }

Routed(k, r) == ("route" :> k) @@ r

ServeRequests(v) ==
  IF v = "main"
  THEN {Routed("webhook", r) : r \in ServeMainWebhooks}
       \cup {Routed("members", r) : r \in MembersRequests}
  ELSE {Routed("webhook", r) : r \in ServeGroupWebhooks}
       \cup {Routed("register", r) : r \in RegisterRequests}

\* what the handler of request r leaves when fault f hits the store while
\* it runs, S being the store and t the time
Handling(v, S, r, t, f) ==
  CASE v = "main" /\ r.route = "webhook" -> WebhookMainFaulty(S, r, t, f)
    [] v = "main" /\ r.route = "members" -> MembersMainFaulty(S, r, t, f)
    [] v = "group" /\ r.route = "webhook" -> WebhookGroupFaulty(S, r, t, f)
    [] OTHER -> RegisterGroupFaulty(S, r, t, f)

\* a request reaches the server and its handler is started; f is the fault
\* that hits while it is handled.  Requests are handled one after the other,
\* so what the handler will leave is settled by the store it starts on
Receive ==
  /\ op # "pending"
  /\ now < MaxRequests
  /\ \E r \in ServeRequests(variant), f \in Faults :
       /\ req' = r
       /\ fault' = f
       /\ handled' = Handling(variant, CurrentStore, r, now + 1, f)
  /\ op' = "pending"
  /\ sent' = 0
  /\ resp' = 0
  /\ UNCHANGED <<variant, env, tenants, members, waitlist, now, pre, resolved, out,
                 alive, procs, failed>>

\* the handler of the pending request ends: its statements have taken
\* effect and its response, if any, is sent
Served(o, res) ==
  /\ tenants' = res.store.tenants
  /\ members' = res.store.members
  /\ waitlist' = res.store.waitlist
  /\ pre' = CurrentStore
  /\ now' = now + 1
  /\ resp' = res.status
  /\ out' = IF "body" \in DOMAIN res THEN res.body ELSE out
  /\ alive' = (res.status # 0)
  /\ sent' = IF res.status # 0 THEN sent + 1 ELSE sent
  /\ op' = IF res.status # 0 THEN o ELSE op
  /\ failed' = (failed \/ fault # "none")
  /\ UNCHANGED <<variant, env, req, fault, resolved, procs, handled>>

Pending(v, k) == alive /\ op = "pending" /\ variant = v /\ req.route = k

ServeWebhookMain ==
  /\ Pending("main", "webhook")
  /\ Served("webhook", handled)

ServeMembersMain ==
  /\ Pending("main", "members")
  /\ Served("members", handled)

ServeWebhookGroup ==
  /\ Pending("group", "webhook")
  /\ Served("webhook", handled)

ServeRegisterGroup ==
  /\ Pending("group", "register")
  /\ Served("register", handled)

InitServe ==
  /\ variant \in {"main", "group"}
  /\ env = Env(NULL, NULL)
  /\ tenants = {}
  /\ members = {}
  /\ waitlist = <<>>
  /\ now = 0
  /\ op = "none"
  /\ req = NoRequest
  /\ resp = 0
  /\ pre = EmptyStore
  /\ resolved = NULL
  /\ Quiet

Serve ==
  \/ ServeWebhookMain
  \/ ServeMembersMain
  \/ ServeWebhookGroup
  \/ ServeRegisterGroup

NextServe ==
  \/ Receive
  \/ ServeWebhookMain
  \/ ServeMembersMain
  \/ ServeWebhookGroup
  \/ ServeRegisterGroup

\* the event loop runs the handler of every request it has accepted
SpecServe == InitServe /\ [][NextServe]_vars /\ WF_vars(Serve)

(***************************************************************************)
(* Concurrent deliveries to the main server.  A route handler runs until   *)
(* its next await; the statements of handlers in flight interleave, each   *)
(* statement being executed by the store on its own.  procs[i] is the      *)
(* handler in slot i: where it stands, its request, its answer, whether    *)
(* its member statement succeeded, and when it arrived and wrote.          *)
(***************************************************************************)
\* number of handlers in flight at once
MaxHandlers == 2

Slots == 1 .. MaxHandlers

IdleHandler ==
  [pc |-> "idle", req |-> NoRequest, status |-> 0, ok |-> TRUE, started |-> 0,
   wrote |-> 0]

\* became-valid deliveries for one (tenant, member)
ConcurrentDeliveries ==
  { MainDelivery(k, <<"biz_1", "u1">>, m, p) :
      k \in {"membership.went_valid", "user_joined"},
      m \in Memberships,
      p \in {<<>>, [email |-> "e1", name |-> "n1", username |-> "un1",
                    custom_fields |-> [q1 |-> "a"]]} }

\* a plain INSERT: rejected by UNIQUE(user_id, company_id) when the row is there
MemberInsert_noArbiter(S, c, data, t) ==
  IF \E x \in S.members : x.company_id = c /\ x.user_id = UserIdOrUser(data)
  THEN [store |-> S, ok |-> FALSE]
  ELSE [store |-> [S EXCEPT !.members = handleMembershipValid(S, c, data, t).members],
        ok |-> TRUE]

\* the INSERT ... ON CONFLICT (user_id, company_id) DO UPDATE of
\* handleMembershipValid as one statement: (user_id, company_id) is the only
\* unique constraint of the table, so a row already there is updated
MemberInsert(S, c, data, t) ==
  [store |-> [S EXCEPT !.members = handleMembershipValid(S, c, data, t).members],
   ok |-> TRUE]

Step(i, p) ==
  /\ procs' = [procs EXCEPT ![i] = p]
  /\ now' = now + 1
  /\ pre' = CurrentStore
  /\ UNCHANGED <<variant, env, op, req, resp, resolved, out, fault, alive, sent,
                 failed, handled>>

\* a delivery arrives and its handler starts
Accept(i) ==
  /\ procs[i].pc = "idle"
  /\ \E r \in ConcurrentDeliveries :
       Step(i, [procs[i] EXCEPT !.pc = "received", !.req = r,
                                !.started = now + 1])
  /\ UNCHANGED <<tenants, members, waitlist>>

\* await ensureCompanyExists(companyId) of the route
EnsureAtRoute(i) ==
  /\ procs[i].pc = "received"
  /\ tenants' = ensureCompanyExists(CurrentStore, WebhookCompanyId(procs[i].req),
                                    now + 1).tenants
  /\ Step(i, [procs[i] EXCEPT !.pc = "dispatched"])
  /\ UNCHANGED <<members, waitlist>>

\* await ensureCompanyExists(companyId) of handleMembershipValid
EnsureInHandler(i) ==
  /\ procs[i].pc = "dispatched"
  /\ tenants' = ensureCompanyExists(CurrentStore, WebhookCompanyId(procs[i].req),
                                    now + 1).tenants
  /\ Step(i, [procs[i] EXCEPT !.pc = "ensured"])
  /\ UNCHANGED <<members, waitlist>>

\* await pool.query(INSERT ...) of handleMembershipValid
InsertMember(i) ==
  /\ procs[i].pc = "ensured"
  /\ \E res \in {MemberInsert(CurrentStore, WebhookCompanyId(procs[i].req),
                              EventData(procs[i].req), now + 1)} :
       /\ members' = res.store.members
       /\ Step(i, [procs[i] EXCEPT !.pc = "written", !.ok = res.ok,
                                   !.wrote = now + 1])
  /\ UNCHANGED <<tenants, waitlist>>

\* res.json({ success: true, ... })
Respond(i) ==
  /\ procs[i].pc = "written"
  /\ Step(i, [procs[i] EXCEPT !.pc = "answered", !.status = 200])
  /\ UNCHANGED <<tenants, members, waitlist>>

InitConcurrent ==
  /\ variant = "main"
  /\ env = Env(NULL, NULL)
  /\ tenants = {}
  /\ members = {}
  /\ waitlist = <<>>
  /\ now = 0
  /\ op = "none"
  /\ req = NoRequest
  /\ resp = 0
  /\ pre = EmptyStore
  /\ resolved = NULL
  /\ out = NoBody
  /\ fault = "none"
  /\ alive = TRUE
  /\ sent = 0
  /\ procs = [i \in Slots |-> IdleHandler]
  /\ failed = FALSE
  /\ handled = NoBody

NextConcurrent ==
  \E i \in Slots :
    \/ Accept(i)
    \/ EnsureAtRoute(i)
    \/ EnsureInHandler(i)
    \/ InsertMember(i)
    \/ Respond(i)

SpecConcurrent == InitConcurrent /\ [][NextConcurrent]_vars

(***************************************************************************)
(* Vocabulary of the properties: what a delivery is about, read off the    *)
(* request the way the handling variant reads it.                          *)
(***************************************************************************)
KindOf(v, r) ==
  CASE v = "main" -> EventType(r)
    [] v = "app" -> OrElse(F(r.body, "action"), F(r.body, "type"))
    [] v = "group" -> F(r.body, "type")
    [] OTHER -> F(r.body, "action")

DataOf(v, r) == IF v = "main" THEN EventData(r) ELSE Sub(r.body, "data")

IsValidKind(v, r) ==
  CASE v = "main" -> KindOf(v, r) \in ValidKinds
    [] v = "fixed" -> KindOf(v, r) \in FixedValidKinds
    [] v = "group" -> KindOf(v, r) = "membership_went_valid"
    [] OTHER -> KindOf(v, r) \in AppValidKinds

IsInvalidKind(v, r) ==
  CASE v = "main" -> KindOf(v, r) \in InvalidKinds
    [] v = "fixed" -> KindOf(v, r) \in FixedInvalidKinds
    [] v = "group" -> KindOf(v, r) = "membership_went_invalid"
    [] OTHER -> KindOf(v, r) \in AppInvalidKinds

IsUpdateKind(v, r) == v = "main" /\ KindOf(v, r) \in UpdateKinds

\* the member the delivery names, NULL if none
MemberIdOf(v, r) ==
  CASE v \in {"main", "fixed"} -> UserIdOrUser(DataOf(v, r))
    [] v = "native" ->
         OrElse(F(UserObj(DataOf(v, r)), "id"), F(DataOf(v, r), "user_id"))
    [] OTHER -> OrElse(F(DataOf(v, r), "user_id"), F(UserObj(DataOf(v, r)), "id"))

\* the membership the delivery names, NULL if none
MembershipIdOf(v, r) ==
  IF v = "main" THEN OrElse(F(DataOf(v, r), "id"), F(DataOf(v, r), "membership_id"))
  ELSE F(DataOf(v, r), "id")

\* the tenant the variant resolves for the delivery, NULL if none
TenantOf(v, e, r) ==
  CASE v = "main" -> IF Truthy(WebhookCompanyId(r)) THEN WebhookCompanyId(r) ELSE NULL
    [] v = "app" ->
         IF Truthy(e.WHOP_API_KEY) /\ Truthy(MembershipIdOf(v, r))
         THEN F(Sub(r.api, "membership"), "company_buyer_id") ELSE NULL
    [] v = "native" -> CompanyId_p000(DataOf(v, r))
    [] v = "fixed" -> CompanyId_p001(DataOf(v, r))
    [] v = "group" -> IF Truthy(CompanyId_p002(r.body)) THEN CompanyId_p002(r.body)
                      ELSE NULL

SameKey(x, y) == x.company_id = y.company_id /\ x.user_id = y.user_id

\* a member row without its time of last change
NoStamp(x) == [x EXCEPT !.updated_at = 0]

\* a tenant row without its time of last activity
NoActivity(x) == [x EXCEPT !.last_activity = 0]

ProfileFields == {"email", "name", "username", "profile_picture_url"}

(***************************************************************************)
(* C1  Idempotence of the became-valid upsert: when a became-valid payload *)
(* that has just been processed (it wrote its member row) is delivered     *)
(* again, the store after the redelivery equals the store before it, apart *)
(* from the times of last change, and holds one row per (tenant, member).  *)
(* The platform API answers the redelivery as it answered the delivery,    *)
(* or not at all.                                                          *)
(***************************************************************************)
C1_Redelivery ==
  /\ variant \in {"main", "app"}
  /\ op = "webhook" /\ op' = "webhook"
  /\ IsValidKind(variant, req)
  /\ resp = 200 /\ resp' = 200
  /\ \E x \in members : x.updated_at = now
  /\ req'.body = req.body /\ req'.headers = req.headers /\ req'.query = req.query
  /\ Sub(req'.api, "membership") = Sub(req.api, "membership")
  /\ Has(req'.api, "user") => Sub(req'.api, "user") = Sub(req.api, "user")

C1_Idempotent ==
  [][C1_Redelivery =>
       /\ {NoStamp(x) : x \in members'} = {NoStamp(x) : x \in members}
       /\ {NoActivity(x) : x \in tenants'} = {NoActivity(x) : x \in tenants}
       /\ \A x, y \in members' : SameKey(x, y) => x = y]_vars

\* a redelivery whose profile lookup failed has changed the row the first
\* delivery wrote
C1_Witness ==
  /\ variant = "app"
  /\ op = "webhook"
  /\ IsValidKind(variant, req)
  /\ \E x \in members : \E z \in pre.members :
       /\ SameKey(x, z)
       /\ z.updated_at = now - 1 /\ x.updated_at = now
       /\ x.membership_id = MembershipIdOf(variant, req)
       /\ ~Has(req.api, "user")
       /\ NoStamp(x) # NoStamp(z)

(***************************************************************************)
(* C2  Coalesce-on-conflict: a became-valid delivery never erases a stored *)
(* email, name, username or avatar: a profile field that held a value      *)
(* before the delivery holds a value after it.                             *)
(***************************************************************************)
C2_CoalesceOnConflict ==
  [][(/\ variant \in {"main", "app"}
      /\ op' = "webhook"
      /\ IsValidKind(variant, req'))
     => \A x \in members : \A y \in members' :
          SameKey(x, y) => \A f \in ProfileFields : x[f] # NULL => y[f] # NULL]_vars

\* a became-valid delivery has replaced a stored email by null
C2_Witness ==
  /\ variant = "app"
  /\ op = "webhook"
  /\ IsValidKind(variant, req)
  /\ \E x \in members : \E z \in pre.members :
       SameKey(x, z) /\ z.email # NULL /\ x.email = NULL

(***************************************************************************)
(* C3  Transition to active: after a became-valid delivery that names the  *)
(* member and a resolvable tenant was answered 200, a row for (tenant,     *)
(* member) exists with status active.                                      *)
(***************************************************************************)
C3_Delivered ==
  /\ variant \in {"main", "app"}
  /\ op = "webhook"
  /\ IsValidKind(variant, req)
  /\ Truthy(MemberIdOf(variant, req))
  /\ Truthy(TenantOf(variant, env, req))
  /\ resp = 200

C3_BecomesActive ==
  C3_Delivered =>
    \E x \in members :
      /\ x.company_id = TenantOf(variant, env, req)
      /\ x.user_id = MemberIdOf(variant, req)
      /\ x.status = "active"

\* a became-valid delivery with a new membership id was answered 200 and the
\* member's row is still inactive
C3_Witness ==
  /\ C3_Delivered
  /\ \E x \in members :
       /\ x.company_id = TenantOf(variant, env, req)
       /\ x.user_id = MemberIdOf(variant, req)
       /\ x.membership_id # MembershipIdOf(variant, req)
       /\ x.status = "inactive"

(***************************************************************************)
(* C4  Transition to inactive keeps the profile: a became-invalid delivery *)
(* deletes no row and changes no email, name, username, avatar,            *)
(* custom_fields, membership id or joined_at; the active row it addresses  *)
(* has status inactive afterwards.                                         *)
(***************************************************************************)
\* the row the became-invalid delivery r addresses
Addresses(v, e, r, x) ==
  IF v = "main"
  THEN x.company_id = TenantOf(v, e, r) /\ x.user_id = MemberIdOf(v, r)
  ELSE x.membership_id = MembershipIdOf(v, r)

KeptFields ==
  {"company_id", "user_id", "membership_id", "email", "name", "username",
   "profile_picture_url", "custom_fields", "joined_at"}

C4_InactiveKeepsProfile ==
  [][(/\ variant \in {"main", "app"}
      /\ op' = "webhook"
      /\ IsInvalidKind(variant, req')
      /\ resp' = 200)
     => \A x \in members : \E y \in members' :
          /\ \A f \in KeptFields : y[f] = x[f]
          /\ (x.status = "active" /\ Addresses(variant, env, req', x))
               => y.status = "inactive"]_vars

\* an active row with a stored profile was deactivated by the last delivery
C4_Witness ==
  /\ variant \in {"main", "app"}
  /\ op = "webhook"
  /\ IsInvalidKind(variant, req)
  /\ \E x \in members : \E z \in pre.members :
       /\ SameKey(x, z)
       /\ z.status = "active" /\ x.status = "inactive"
       /\ x.email # NULL /\ x.email = z.email
       /\ DOMAIN x.custom_fields # {}

(***************************************************************************)
(* C5  Tenant isolation on writes: a webhook whose resolved tenant is A    *)
(* creates, changes and deactivates no member row of another tenant.       *)
(***************************************************************************)
C5_TenantIsolation ==
  [][(/\ variant \in {"main", "app", "native"}
      /\ op' = "webhook"
      /\ Truthy(TenantOf(variant, env, req')))
     => /\ \A x \in members :
             x.company_id # TenantOf(variant, env, req') => x \in members'
        /\ \A y \in members' :
             y.company_id # TenantOf(variant, env, req') => y \in members]_vars

\* a delivery resolved to one tenant has changed a row of another tenant
C5_Witness ==
  /\ variant = "native"
  /\ op = "webhook"
  /\ Truthy(TenantOf(variant, env, req))
  /\ \E x \in members : \E z \in pre.members :
       /\ SameKey(x, z)
       /\ x.company_id # TenantOf(variant, env, req)
       /\ x # z

(***************************************************************************)
(* C6  The write path never guesses a tenant: a webhook from which no      *)
(* tenant id is resolved is answered 400 and leaves the tenants table and  *)
(* the members table as they were.                                         *)
(***************************************************************************)
C6_Unresolved ==
  /\ variant \in {"main", "fixed"}
  /\ op = "webhook"
  /\ TenantOf(variant, env, req) = NULL

RefererTenant(v, r) ==
  IF v = "main"
  THEN OrElse(extractCompanyFromWhopApps(r.headers),
              extractCompanyFromReferer(r.headers))
  ELSE extractCompanyId_p001(Request(Opt("referer", NULL)
                                       @@ (IF Has(r.headers, "referer")
                                           THEN ("referer" :> r.headers["referer"])
                                           ELSE <<>>),
                                     <<>>, <<>>, <<>>))

C7_Conflict ==
  /\ op = "resolve"
  /\ Truthy(F(req.headers, "x-company-id"))
  /\ Trim(F(req.headers, "x-company-id")) # ""
  /\ ~Has(req.headers, "x-page-id")
  /\ ~Has(req.query, "company_id")
  /\ Truthy(RefererTenant(variant, req))
  /\ RefererTenant(variant, req) # Trim(F(req.headers, "x-company-id"))

C7_HeaderBeatsReferer ==
  C7_Conflict => resolved = Trim(F(req.headers, "x-company-id"))

\* the resolver has returned the Referer's tenant although a header named one
C7_Witness ==
  /\ C7_Conflict
  /\ resolved = RefererTenant(variant, req)

(***************************************************************************)
(* C8  Signature enforcement: with a webhook secret configured, a webhook  *)
(* whose signature is missing or is not the HMAC of the payload is         *)
(* answered 401 and changes nothing in the store.                          *)
(***************************************************************************)
\* the secret the webhook is verified against, NULL if none is configured
SecretFor(v, e, S, r) ==
  IF v = "native" THEN e.WHOP_WEBHOOK_SECRET
  ELSE LET g == {x \in S.tenants : x.company_id = TenantOf(v, e, r)}
       IN IF g = {} THEN NULL ELSE (CHOOSE x \in g : TRUE).webhook_secret

\* the request carries the signature a holder of secret computes for it
SignatureMatches(v, r, secret) ==
  /\ Has(r.headers, "x-whop-signature")
  /\ LET h == r.headers["x-whop-signature"]
     IN IF v = "native"
        THEN /\ Has(h, "t") /\ Has(h, "v1")
             /\ h["v1"] = Signature(Hmac(secret, <<h["t"], r.body>>), DigestBytes)
        ELSE /\ h.digest = Hmac(secret, r.body)
             /\ h.bytes = DigestBytes

C8_Forged ==
  /\ variant \in {"native", "group"}
  /\ op = "webhook"
  /\ Truthy(SecretFor(variant, env, pre, req))
  /\ ~SignatureMatches(variant, req, SecretFor(variant, env, pre, req))

C8_SignatureEnforced ==
  C8_Forged => resp = 401 /\ CurrentStore = pre

\* a webhook without a valid signature was answered 200 and changed members
C8_Witness ==
  /\ C8_Forged
  /\ resp = 200
  /\ members # pre.members

(***************************************************************************)
(* C9  Unrecognized event kinds are no-ops: a webhook with an event kind   *)
(* that is none of the valid, invalid or updated spellings is answered 200 *)
(* and leaves the member rows as they were.                                *)
(***************************************************************************)
C9_Unrecognized ==
  /\ variant \in {"main", "app"}
  /\ op = "webhook"
  /\ Truthy(KindOf(variant, req))
  /\ ~IsValidKind(variant, req)
  /\ ~IsInvalidKind(variant, req)
  /\ ~IsUpdateKind(variant, req)

LooksCompleted(v, r) ==
  /\ v = "main"
  /\ F(DataOf(v, r), "status") = "completed"
  /\ F(DataOf(v, r), "valid") = "true"

C10_MissingId ==
  /\ variant \in {"main", "app"}
  /\ op = "webhook"
  /\ \/ IsValidKind(variant, req)
     \/ IsInvalidKind(variant, req)
     \/ IsUpdateKind(variant, req)
  /\ \/ ~Truthy(MemberIdOf(variant, req)) /\ (variant = "main" \/ IsValidKind(variant, req))
     \/ variant = "app" /\ ~Truthy(MembershipIdOf(variant, req))

C10_NoPartialWrite ==
  C10_MissingId => tenants = pre.tenants /\ members = pre.members

\* a became-valid delivery without member id has created a tenant row
C10_Witness ==
  /\ C10_MissingId
  /\ resp = 200
  /\ pre.tenants = {}
  /\ tenants # {}
  /\ members = pre.members

(***************************************************************************)
(* C11  Directory read reflects the state machine: a listing of tenant t   *)
(* with status s (active if none is asked for) answered 200 returns        *)
(* exactly the member rows whose tenant is t and whose status is s, and a  *)
(* count equal to their number; the members endpoint of the main server    *)
(* asked for a tenant by id does the same.                                 *)
(***************************************************************************)
C11_Read ==
  /\ op \in {"directory", "members"}
  /\ resp = 200
  /\ Has(req.params, "companyId")
  /\ req.params["companyId"] # "auto"

C11_ListingIsExact ==
  C11_Read =>
    LET rows == {x \in members : /\ x.company_id = req.params["companyId"]
                                 /\ x.status = StatusParam(req)}
    IN /\ out.members = {Listed(x) : x \in rows}
       /\ out.count = Cardinality(rows)

\* the members endpoint, asked for the active members of a tenant, has
\* returned a member whose row is inactive
C11_Witness ==
  /\ variant = "main"
  /\ C11_Read
  /\ StatusParam(req) = "active"
  /\ \E y \in out.members : y.status = "inactive" /\ y.email # NULL
  /\ out.count = 1

(***************************************************************************)
(* C12  Store failure is surfaced: when the store fails or rejects the     *)
(* member write of a became-valid, became-invalid or updated webhook (one  *)
(* that names its member and its tenant), the webhook is answered 500.     *)
(***************************************************************************)
C12_FailedWrite ==
  /\ variant = "main"
  /\ op = "webhook"
  /\ fault # "none"
  /\ \/ IsValidKind(variant, req)
     \/ IsInvalidKind(variant, req)
     \/ IsUpdateKind(variant, req)
  /\ Truthy(MemberIdOf(variant, req))
  /\ Truthy(TenantOf(variant, env, req))

C12_FailureSurfaced == C12_FailedWrite => resp = 500

\* a became-valid webhook whose member write was rejected has been answered
\* 200 and no member row was written
C12_Witness ==
  /\ C12_FailedWrite
  /\ IsValidKind(variant, req)
  /\ fault = "members"
  /\ resp = 200
  /\ members = {}
  /\ tenants # pre.tenants

(***************************************************************************)
(* C13  Enrichment failure degrades gracefully: when the membership-detail *)
(* or the user-profile call of the platform API fails while a became-valid *)
(* webhook naming its member and membership is processed, the member has   *)
(* an active row afterwards, written from the webhook alone.               *)
(***************************************************************************)
C13_EnrichmentFailed ==
  /\ variant \in {"app", "group"}
  /\ op = "webhook"
  /\ IsValidKind(variant, req)
  /\ resp = 200
  /\ variant = "app" => Truthy(env.WHOP_API_KEY)
  /\ Truthy(MemberIdOf(variant, req))
  /\ Truthy(MembershipIdOf(variant, req))
  /\ \/ ~Has(req.api, "membership")
     \/ variant = "app" /\ ~Has(req.api, "user")

C13_RowStillWritten ==
  C13_EnrichmentFailed =>
    \E x \in members : x.user_id = MemberIdOf(variant, req) /\ x.status = "active"

\* the membership call failed, the webhook was answered 200 and the store
\* holds no member at all
C13_Witness ==
  /\ C13_EnrichmentFailed
  /\ variant = "app"
  /\ ~Has(req.api, "membership")
  /\ members = {}
  /\ pre.tenants # {}

(***************************************************************************)
(* C14  Member identity invariants: in every reachable state of the store  *)
(* no two member rows share (tenant id, member id), and no two member rows *)
(* share a membership id that is not null.                                 *)
(***************************************************************************)
C14_IdentityInvariants ==
  variant \in {"main", "app"} =>
    \A x, y \in members :
      /\ SameKey(x, y) => x = y
      /\ (x.membership_id # NULL /\ x.membership_id = y.membership_id) => x = y

\* two member rows of the store carry the same membership id
C14_Witness ==
  /\ variant = "main"
  /\ \E x, y \in members :
       /\ x # y
       /\ x.membership_id # NULL
       /\ x.membership_id = y.membership_id
       /\ x.company_id = y.company_id

(***************************************************************************)
(* C15  Atomic upsert under concurrency: when became-valid deliveries for  *)
(* the same (tenant, member) are processed concurrently, in every          *)
(* interleaving no member statement fails, every delivery is answered 200, *)
(* and once a delivery has written there is exactly one member row for the *)
(* key, with status active.                                                *)
(***************************************************************************)
C15_RowsOfKey == {x \in members : x.company_id = "biz_1" /\ x.user_id = "u1"}

C15_AtomicUpsert ==
  /\ \A i \in DOMAIN procs :
       /\ procs[i].ok
       /\ procs[i].pc = "answered" => procs[i].status = 200
  /\ (\E i \in DOMAIN procs : procs[i].pc \in {"written", "answered"})
       => /\ Cardinality(C15_RowsOfKey) = 1
          /\ \A x \in C15_RowsOfKey : x.status = "active"
          /\ members = C15_RowsOfKey

\* two deliveries with different membership ids, each arrived before the
\* other wrote, have both been answered
C15_Witness ==
  /\ DOMAIN procs = Slots
  /\ \A i \in Slots : procs[i].pc = "answered"
  /\ \E i, j \in Slots :
       /\ i # j
       /\ procs[i].started < procs[j].wrote
       /\ procs[j].started < procs[i].wrote
       /\ MembershipIdOf("main", procs[i].req) # MembershipIdOf("main", procs[j].req)

(***************************************************************************)
(* C16  Malformed webhooks are rejected before any processing: a webhook   *)
(* whose body cannot be parsed or has no event-kind field (and that is not *)
(* turned away for its signature) is answered 400 and leaves the tenants   *)
(* and members tables as they were.                                        *)
(***************************************************************************)
C16_Malformed ==
  /\ variant \in {"main", "native", "fixed"}
  /\ op = "webhook"
  /\ ~ParsesAsJson(req.body) \/ ~Truthy(KindOf(variant, req))
  /\ variant = "native" =>
       \/ ~Truthy(env.WHOP_WEBHOOK_SECRET)
       \/ SignatureAccepted_p000(req, env.WHOP_WEBHOOK_SECRET)

C16_MalformedRejected ==
  C16_Malformed =>
    /\ resp = 400
    /\ tenants = pre.tenants
    /\ members = pre.members

\* a body that parses and names no event kind has been answered 200
C16_Witness ==
  /\ C16_Malformed
  /\ variant = "native"
  /\ ParsesAsJson(req.body)
  /\ Has(req.body, "data")
  /\ resp = 200

(***************************************************************************)
(* C17  Read-path fallback: a members read that names no tenant (no path   *)
(* id, no header, no query parameter, no body field, no usable Referer)    *)
(* while the store knows an active tenant is answered with the members of  *)
(* that tenant whose last activity is the most recent.                     *)
(***************************************************************************)
C17_KnownTenants == {c \in pre.tenants : c.status = "active"}

C17_NoTenantRead ==
  /\ variant = "main"
  /\ op = "members"
  /\ ~Truthy(F(req.params, "companyId")) \/ F(req.params, "companyId") = "auto"
  /\ ~Truthy(extractCompanyId(req))
  /\ C17_KnownTenants # {}

C17_FallsBackToLatest ==
  C17_NoTenantRead =>
    /\ resp = 200
    /\ \E c \in C17_KnownTenants :
         /\ \A d \in C17_KnownTenants : d.last_activity <= c.last_activity
         /\ out.members =
              {Listed(x) : x \in {y \in members : y.company_id = c.company_id}}

\* a members read without any tenant was answered 400 while the store held
\* an active tenant with a member
C17_Witness ==
  /\ C17_NoTenantRead
  /\ resp = 400
  /\ out.members = {}
  /\ out.available_companies # {}
  /\ \E x \in members : \E c \in C17_KnownTenants : x.company_id = c.company_id

(***************************************************************************)
(* C18  Custom fields accumulate across deliveries: when a became-valid    *)
(* delivery updates the row an earlier delivery wrote for the same member, *)
(* the stored custom_fields mapping is the mapping stored before, merged   *)
(* with the mapping the delivery carries; the delivery overwrites only the *)
(* keys it carries itself.                                                 *)
(***************************************************************************)
C18_Delivered ==
  IF variant = "main"
  THEN FirstObject(DataOf(variant, req),
                   <<"custom_field_responses", "waitlist_responses",
                     "custom_fields", "responses", "metadata">>)
  ELSE CustomFields_p000(DataOf(variant, req))

\* x is the row the became-valid delivery wrote over the earlier row z
C18_Rewrote(x, z) ==
  /\ variant \in {"main", "native"}
  /\ op = "webhook"
  /\ IsValidKind(variant, req)
  /\ resp = 200
  /\ SameKey(x, z)
  /\ x.user_id = MemberIdOf(variant, req)
  /\ x.company_id = TenantOf(variant, env, req)
  /\ x.membership_id = MembershipIdOf(variant, req)
  /\ x.updated_at = now
  /\ z.updated_at < now

C18_FieldsAccumulate ==
  \A x \in members : \A z \in pre.members :
    C18_Rewrote(x, z) => x.custom_fields = Spread(z.custom_fields, C18_Delivered)

\* a became-valid delivery that carries none of the keys stored for the
\* member has replaced the stored mapping
C18_Witness ==
  \E x \in members : \E z \in pre.members :
    /\ C18_Rewrote(x, z)
    /\ DOMAIN z.custom_fields # {}
    /\ DOMAIN z.custom_fields \cap DOMAIN C18_Delivered = {}
    /\ x.custom_fields = C18_Delivered

(***************************************************************************)
(* C19  Automatic directory creation on first view: a page view from which *)
(* a company id is resolved leaves exactly one company row for that id.    *)
(* If the id was unknown the row is new, has status active, and nothing    *)
(* else of the store changed; if the id was known no company row is added  *)
(* or changed except for the last_activity of that company, which is the   *)
(* time of the view.  Member rows are never touched.                       *)
(***************************************************************************)
C19_View ==
  /\ variant = "main"
  /\ op = "view"
  /\ Truthy(extractCompanyId(req))

C19_RowsOf(T) == {c \in T : c.company_id = extractCompanyId(req)}

C19_CreatedOnFirstView ==
  C19_View =>
    /\ Cardinality(C19_RowsOf(tenants)) = 1
    /\ members = pre.members
    /\ \A c \in C19_RowsOf(tenants) : c.last_activity = now
    /\ IF C19_RowsOf(pre.tenants) = {}
       THEN /\ tenants \ C19_RowsOf(tenants) = pre.tenants
            /\ \A c \in C19_RowsOf(tenants) : c.status = "active"
       ELSE /\ {NoActivity(c) : c \in tenants} = {NoActivity(c) : c \in pre.tenants}
            /\ tenants \ C19_RowsOf(tenants) = pre.tenants \ C19_RowsOf(pre.tenants)

\* a later view of a company an earlier request created: the row is the
\* same but for its last activity, now later than its installation
C19_Witness ==
  /\ C19_View
  /\ resp = 200
  /\ \E c \in C19_RowsOf(tenants) : \E d \in C19_RowsOf(pre.tenants) :
       /\ NoActivity(c) = NoActivity(d)
       /\ d.last_activity < now
       /\ c.installed_at < c.last_activity

(***************************************************************************)
(* C20  The service survives single-request failures: the process stays up *)
(* whatever fault hits the store while a request is handled, no request is *)
(* answered twice, a handled request has been answered exactly once, and   *)
(* every request the server has received is eventually answered, those     *)
(* received after a request that hit a store failure included.             *)
(***************************************************************************)
C20_Answered == op \notin {"none", "pending"}

C20_OneResponse ==
  /\ alive
  /\ sent <= 1
  /\ C20_Answered => sent = 1 /\ resp # 0

C21_Clean(vals) == {Trim(v) : v \in {w \in vals : Truthy(w)}} \ {""}

C21_Tier(r, n) ==
  LET d == Sub(r.body, "data")
  IN CASE n = 1 -> C21_Clean({F(r.headers, k) :
                        k \in {"x-page-id", "x-whop-company-id", "x-company-id",
                               "x-business-id"}})
       [] n = 2 -> C21_Clean({F(r.query, k) :
                        k \in {"company", "company_id", "business_id", "page_id",
                               "biz"}})
       [] n = 3 -> C21_Clean({F(r.body, k) :
                        k \in {"page_id", "company_id", "business_id"}})
       [] n = 4 -> C21_Clean({F(d, k) : k \in {"page_id", "company_id", "business_id"}})
       [] n = 5 -> C21_Clean({F(Sub(d, "product"), "company_id")})
       [] OTHER -> C21_Clean({RefererTenant(variant, r)})

C21_Populated(r) == {n \in 1..6 : C21_Tier(r, n) # {}}

C21_FirstMatchWins ==
  op = "resolve" =>
    IF C21_Populated(req) = {} THEN resolved = NULL
    ELSE resolved \in C21_Tier(req, MinOf(C21_Populated(req)))

\* the resolver of part_001 has found no tenant in a request whose product
\* field names one
C21_Witness ==
  /\ op = "resolve"
  /\ variant = "fixed"
  /\ C21_Populated(req) = {5}
  /\ C21_Tier(req, 5) = {"biz_1"}
  /\ resolved = NULL

(***************************************************************************)
(* C22  Candidate trimming: the tenant id the main server works with is    *)
(* never empty or blank and carries no white space at either end: the id   *)
(* the webhook handler resolves for a delivery it processes, and with it   *)
(* the id of every company row and of every member row of the store.       *)
(***************************************************************************)
C22_Trimmed(c) == Truthy(c) /\ Trim(c) = c

C22_TenantIdsTrimmed ==
  variant = "main" =>
    /\ \A c \in tenants : C22_Trimmed(c.company_id)
    /\ \A x \in members : C22_Trimmed(x.company_id)
    /\ (op = "webhook" /\ resp = 200) => C22_Trimmed(WebhookCompanyId(req))

\* a delivery whose only tenant field is blank has been processed and has
\* left a company row and a member row under the blank id
C22_Witness ==
  /\ variant = "main"
  /\ op = "webhook"
  /\ resp = 200
  /\ extractCompanyId(req) = NULL
  /\ WebhookCompanyId(req) = WS
  /\ \E c \in tenants : c.company_id = WS
  /\ \E x \in members : x.company_id = WS

(***************************************************************************)
(* C23  Re-subscription with a new membership id: when a became-valid      *)
(* delivery is processed for a (tenant, member) whose stored row carries   *)
(* another membership id, the store afterwards holds exactly one row for   *)
(* (tenant, member), that row is active and carries the membership id of   *)
(* the delivery.                                                           *)
(***************************************************************************)
C23_RowsOfMember(M) ==
  {x \in M : /\ x.company_id = TenantOf(variant, env, req)
             /\ x.user_id = MemberIdOf(variant, req)}

C23_Resubscribed ==
  /\ variant \in {"main", "app", "native"}
  /\ op = "webhook"
  /\ IsValidKind(variant, req)
  /\ resp = 200
  /\ Truthy(TenantOf(variant, env, req))
  /\ Truthy(MemberIdOf(variant, req))
  /\ Truthy(MembershipIdOf(variant, req))
  /\ C23_RowsOfMember(pre.members) # {}
  /\ \A z \in C23_RowsOfMember(pre.members) :
       z.membership_id # MembershipIdOf(variant, req)

C23_NewMembershipTaken ==
  C23_Resubscribed =>
    /\ Cardinality(C23_RowsOfMember(members)) = 1
    /\ \A x \in C23_RowsOfMember(members) :
         /\ x.status = "active"
         /\ x.membership_id = MembershipIdOf(variant, req)

\* the delivery was answered 200 and the row of the member still carries
\* the old membership id and is still inactive
C23_Witness ==
  /\ C23_Resubscribed
  /\ variant \in {"app", "native"}
  /\ members = pre.members
  /\ \E x \in C23_RowsOfMember(members) :
       /\ x.status = "inactive"
       /\ x.membership_id # MembershipIdOf(variant, req)

(***************************************************************************)
(* C24  Delivery order decides: the status of a member's row is that of    *)
(* the last became-valid or became-invalid event processed for the member. *)
(* Event by event, on the main server: a processed became-valid event      *)
(* leaves the member's row active; a became-invalid event leaves it        *)
(* inactive if it exists and creates none if it does not; an event of any  *)
(* other kind neither creates a row nor changes a status; and no event     *)
(* touches the status of another member.                                   *)
(***************************************************************************)
C24_Statuses(M) == {<<x.company_id, x.user_id, x.status>> : x \in M}

C24_Named(x) ==
  /\ x.company_id = TenantOf(variant, env, req)
  /\ x.user_id = MemberIdOf(variant, req)

C24_Processed ==
  /\ variant = "main"
  /\ op = "webhook"
  /\ resp = 200

C24_DeliveryOrderDecides ==
  C24_Processed =>
    /\ C24_Statuses({x \in members : ~C24_Named(x)})
         = C24_Statuses({x \in pre.members : ~C24_Named(x)})
    /\ (/\ IsValidKind(variant, req)
        /\ Truthy(MemberIdOf(variant, req))
        /\ Truthy(MembershipIdOf(variant, req)))
         => /\ \E x \in members : C24_Named(x)
            /\ \A x \in members : C24_Named(x) => x.status = "active"
    /\ IsInvalidKind(variant, req)
         => /\ (\E x \in members : C24_Named(x)) = (\E z \in pre.members : C24_Named(z))
            /\ \A x \in members : C24_Named(x) => x.status = "inactive"
    /\ (~IsValidKind(variant, req) /\ ~IsInvalidKind(variant, req))
         => C24_Statuses(members) = C24_Statuses(pre.members)

\* an updated event for a member without a row has created an active row
C24_Witness ==
  /\ C24_Processed
  /\ IsUpdateKind(variant, req)
  /\ ~ \E z \in pre.members : C24_Named(z)
  /\ \E x \in members : C24_Named(x) /\ x.status = "active"

(***************************************************************************)
(* Concurrent first views of the main server.  GET /api/members/auto runs  *)
(* detectAndHandleNewInstallation statement by statement: the SELECT of    *)
(* the company, then the UPDATE of its last_activity or the INSERT of its  *)
(* row, then the listing query of the route.  The statements of handlers   *)
(* in flight interleave; whop_companies has UNIQUE(company_id), so the     *)
(* INSERT of a company that has appeared since the SELECT is rejected, and *)
(* the function catches the error and returns null.                        *)
(***************************************************************************)
IdleViewer ==
  [pc |-> "idle", req |-> NoRequest, result |-> <<>>, status |-> 0, body |-> NoBody]

\* members/auto requests that name their company in a header
FirstViewRequests ==
  { ReadRequest([companyId |-> "auto"], ("x-company-id" :> c), <<>>) :
      c \in Companies }

\* a members/auto request arrives and its handler starts
ArriveView(i) ==
  /\ procs[i].pc = "idle"
  /\ \E r \in FirstViewRequests :
       Step(i, [procs[i] EXCEPT !.pc = "detecting", !.req = r])
  /\ UNCHANGED <<tenants, members, waitlist>>

\* SELECT company_id ... FROM whop_companies WHERE company_id = $1
SelectCompany(i) ==
  /\ procs[i].pc = "detecting"
  /\ Step(i, [procs[i] EXCEPT !.pc =
                IF \E c \in tenants : c.company_id = extractCompanyId(procs[i].req)
                THEN "existing" ELSE "new"])
  /\ UNCHANGED <<tenants, members, waitlist>>

\* UPDATE whop_companies SET last_activity = CURRENT_TIMESTAMP
RefreshActivity(i) ==
  /\ procs[i].pc = "existing"
  /\ \E inst \in {InstallationOf(CurrentStore, extractCompanyId(procs[i].req),
                                 now + 1)} :
       /\ tenants' = inst.store.tenants
       /\ Step(i, [procs[i] EXCEPT !.pc = "detected", !.result = inst.result])
  /\ UNCHANGED <<members, waitlist>>

\* INSERT INTO whop_companies ...: rejected if the company is there by now
CreateCompany(i) ==
  /\ procs[i].pc = "new"
  /\ \E inst \in {IF \E c \in tenants : c.company_id = extractCompanyId(procs[i].req)
                  THEN [store |-> CurrentStore, result |-> <<>>]
                  ELSE InstallationOf(CurrentStore, extractCompanyId(procs[i].req),
                                      now + 1)} :
       /\ tenants' = inst.store.tenants
       /\ Step(i, [procs[i] EXCEPT !.pc = "detected", !.result = inst.result])
  /\ UNCHANGED <<members, waitlist>>

\* the rest of the route: the 400 with the available companies, or the
\* listing query and its answer
AnswerMembers(i) ==
  /\ procs[i].pc = "detected"
  /\ \E res \in {MembersDetected([store |-> CurrentStore, result |-> procs[i].result],
                                 F(procs[i].req.params, "companyId"))} :
       Step(i, [procs[i] EXCEPT !.pc = "answered", !.status = res.status,
                                !.body = res.body])
  /\ UNCHANGED <<tenants, members, waitlist>>

\* the store is empty, or as a became-valid delivery for u1 of biz_2 left it
InitFirstViews ==
  /\ variant = "main"
  /\ env = Env(NULL, NULL)
  /\ \E S \in {EmptyStore,
               handleMembershipValid(EmptyStore, "biz_2",
                                     [user_id |-> "u1", id |-> "mem1"], 0)} :
       /\ tenants = S.tenants
       /\ members = S.members
       /\ waitlist = S.waitlist
  /\ now = 0
  /\ op = "none"
  /\ req = NoRequest
  /\ resp = 0
  /\ pre = EmptyStore
  /\ resolved = NULL
  /\ out = NoBody
  /\ fault = "none"
  /\ alive = TRUE
  /\ sent = 0
  /\ procs = [i \in Slots |-> IdleViewer]
  /\ failed = FALSE
  /\ handled = NoBody

NextFirstViews ==
  \E i \in Slots :
    \/ ArriveView(i)
    \/ SelectCompany(i)
    \/ RefreshActivity(i)
    \/ CreateCompany(i)
    \/ AnswerMembers(i)

SpecFirstViews == InitFirstViews /\ [][NextFirstViews]_vars

(***************************************************************************)
(* C25  Concurrent first views do not break auto-detection: when the       *)
(* members/auto requests in flight for a company id have all been          *)
(* answered, the store holds exactly one company row for that id and each  *)
(* of the requests has been answered 200 with the member list of that      *)
(* company, none with the 400 of a failed detection.                       *)
(***************************************************************************)
C25_ViewersOf(c) ==
  {i \in Slots : /\ procs[i].pc # "idle"
                 /\ extractCompanyId(procs[i].req) = c}

C25_AllAnswered(c) ==
  /\ C25_ViewersOf(c) # {}
  /\ \A i \in C25_ViewersOf(c) : procs[i].pc = "answered"

C25_FirstViewsAnswered ==
  \A c \in Companies :
    C25_AllAnswered(c) =>
      /\ Cardinality({t \in tenants : t.company_id = c}) = 1
      /\ \A i \in C25_ViewersOf(c) :
           /\ procs[i].status = 200
           /\ procs[i].body.company_id = c
           /\ procs[i].body.members =
                {Listed(x) : x \in {y \in members : y.company_id = c}}

\* two first views of one company were in flight together: one created the
\* company row and was answered 200, the other was answered 400
C25_Witness ==
  \E c \in Companies : \E i, j \in C25_ViewersOf(c) :
    /\ C25_AllAnswered(c)
    /\ Cardinality({t \in tenants : t.company_id = c}) = 1
    /\ procs[i].status = 200
    /\ procs[i].body.is_new_installation
    /\ procs[j].status = 400
    /\ c \in procs[j].body.available_companies

(***************************************************************************)
(* Concurrent GET /api/members/auto of the slug-aware server (part_001).   *)
(* The route looks the identifier up (findCompanyInDatabase), inserts a    *)
(* directory if none was found, under a company id it makes up for a slug  *)
(* (biz_<slug>_<random>), looks the new row up, and refreshes the          *)
(* last_activity of the company before it answers.  Math.random is a free  *)
(* choice among Suffixes.  syncMembersWithWhop asks the platform API for   *)
(* members; here the API reports none.                                     *)
(***************************************************************************)
Suffixes == {"r1", "r2"}

\* `biz_${extractedId}_${Math.random().toString(36).substr(2, 9)}`
SynthesizedId(extractedId, suffix) == "biz_" \o extractedId \o "_" \o suffix

IdleAuto ==
  [pc |-> "idle", req |-> NoRequest, company |-> <<>>, created |-> NULL,
   status |-> 0]

\* requests from the community page of slug acme, and of company biz_1
AutoRequests ==
  { Request(("referer" :> Url("whop.com", <<"acme">>, TRUE, <<>>)), <<>>, <<>>, <<>>),
    Request(("x-company-id" :> "biz_1"), <<>>, <<>>, <<>>) }

\* the request arrives; its identifier is extracted
ArriveAuto(i) ==
  /\ procs[i].pc = "idle"
  /\ \E r \in AutoRequests :
       Step(i, [procs[i] EXCEPT !.pc = "looking", !.req = r])
  /\ UNCHANGED <<tenants, members, waitlist>>

\* let company = await findCompanyInDatabase(extractedId)
LookupCompany(i) ==
  /\ procs[i].pc = "looking"
  /\ \E found \in {findCompanyInDatabase(CurrentStore,
                                         extractCompanyId_p001(procs[i].req))} :
       \/ /\ found = {}
          /\ Step(i, [procs[i] EXCEPT !.pc = "creating"])
       \/ \E row \in found :
            Step(i, [procs[i] EXCEPT !.pc = "touching", !.company = row])
  /\ UNCHANGED <<tenants, members, waitlist>>

\* INSERT INTO whop_companies (company_id, company_name, company_slug, ...):
\* company_id is the only unique column; a violation is answered 500
CreateDirectory(i) ==
  /\ procs[i].pc = "creating"
  /\ \E suffix \in Suffixes :
       LET extractedId == extractCompanyId_p001(procs[i].req)
           companyId == IF StartsWithBiz(extractedId) THEN extractedId
                        ELSE SynthesizedId(extractedId, suffix)
       IN IF \E c \in tenants : c.company_id = companyId
          THEN /\ tenants' = tenants
               /\ Step(i, [procs[i] EXCEPT !.pc = "answered", !.status = 500])
          ELSE /\ tenants' = tenants \cup
                    {Tenant(companyId, extractedId \o " Community", "active",
                            now + 1, now + 1, NULL, NULL, extractedId)}
               /\ Step(i, [procs[i] EXCEPT !.pc = "created", !.created = companyId])
  /\ UNCHANGED <<members, waitlist>>

\* company = await findCompanyInDatabase(companyId)
RefetchCompany(i) ==
  /\ procs[i].pc = "created"
  /\ \E row \in findCompanyInDatabase(CurrentStore, procs[i].created) :
       Step(i, [procs[i] EXCEPT !.pc = "touching", !.company = row])
  /\ UNCHANGED <<tenants, members, waitlist>>

\* UPDATE whop_companies SET last_activity = CURRENT_TIMESTAMP, and the
\* answer with the company
TouchAndAnswer(i) ==
  /\ procs[i].pc = "touching"
  /\ tenants' = {IF c.company_id = procs[i].company.company_id
                 THEN [c EXCEPT !.last_activity = now + 1] ELSE c : c \in tenants}
  /\ Step(i, [procs[i] EXCEPT !.pc = "answered", !.status = 200])
  /\ UNCHANGED <<members, waitlist>>

InitSlugViews ==
  /\ variant = "fixed"
  /\ env = Env(NULL, NULL)
  /\ tenants = {}
  /\ members = {}
  /\ waitlist = <<>>
  /\ now = 0
  /\ op = "none"
  /\ req = NoRequest
  /\ resp = 0
  /\ pre = EmptyStore
  /\ resolved = NULL
  /\ out = NoBody
  /\ fault = "none"
  /\ alive = TRUE
  /\ sent = 0
  /\ procs = [i \in Slots |-> IdleAuto]
  /\ failed = FALSE
  /\ handled = NoBody

NextSlugViews ==
  \E i \in Slots :
    \/ ArriveAuto(i)
    \/ LookupCompany(i)
    \/ CreateDirectory(i)
    \/ RefetchCompany(i)
    \/ TouchAndAnswer(i)

SpecSlugViews == InitSlugViews /\ [][NextSlugViews]_vars

(***************************************************************************)
(* C26  One tenant per slug: whatever the interleaving of the members/auto *)
(* requests that resolve to one URL slug, the store holds at most one      *)
(* company row with that slug, and the requests answered 200 were all      *)
(* answered with the same company id.                                      *)
(***************************************************************************)
C26_Slugs == {"acme"}

C26_ServedFor(slug) ==
  {i \in Slots : /\ procs[i].pc = "answered"
                 /\ procs[i].status = 200
                 /\ extractCompanyId_p001(procs[i].req) = slug}

C26_OneTenantPerSlug ==
  \A slug \in C26_Slugs :
    /\ Cardinality({c \in tenants : c.company_slug = slug}) <= 1
    /\ \A i, j \in C26_ServedFor(slug) :
         procs[i].company.company_id = procs[j].company.company_id

\* two requests from the page of one slug were each answered with a
\* directory of their own
C26_Witness ==
  \E slug \in C26_Slugs : \E i, j \in C26_ServedFor(slug) :
    /\ procs[i].company.company_id # procs[j].company.company_id
    /\ procs[i].company.company_slug = slug
    /\ procs[j].company.company_slug = slug
    /\ Cardinality({c \in tenants : c.company_slug = slug}) = 2

(***************************************************************************)
(* Concurrent became-valid deliveries to the app server.  After the        *)
(* membership API has answered, handleAppMembershipValid runs              *)
(* ensureInstallationExists (a SELECT, then an INSERT if no row was        *)
(* found, both inside one try/catch that logs), stores the member, and the *)
(* route answers 200.  The statements of handlers in flight interleave.    *)
(* app_installations has UNIQUE(whop_company_id) and                       *)
(* UNIQUE(installation_id); the installation id is auto_<Date.now()>, and  *)
(* two INSERTs may read the same millisecond.                              *)
(***************************************************************************)
IdleInstaller ==
  [pc |-> "idle", req |-> NoRequest, rejected |-> FALSE, status |-> 0]

\* became-valid deliveries of two members, the API naming the company
InstallDeliveries ==
  { AppDelivery("membership.went_valid", um[1], um[2],
                [membership |-> [company_buyer_id |-> c]]) :
      um \in {<<"u1", "mem1">>, <<"u2", "mem2">>}, c \in Companies }

CompanyOf(r) == r.api.membership.company_buyer_id

\* the delivery arrives and fetchWhopMembershipData has answered
ArriveApp(i) ==
  /\ procs[i].pc = "idle"
  /\ \E r \in InstallDeliveries :
       Step(i, [procs[i] EXCEPT !.pc = "fetched", !.req = r])
  /\ UNCHANGED <<tenants, members, waitlist>>

\* SELECT id FROM app_installations WHERE whop_company_id = $1
SelectInstallation(i) ==
  /\ procs[i].pc = "fetched"
  /\ Step(i, [procs[i] EXCEPT !.pc =
                IF \E c \in tenants : c.company_id = CompanyOf(procs[i].req)
                THEN "ensured" ELSE "registering"])
  /\ UNCHANGED <<tenants, members, waitlist>>

\* INSERT INTO app_installations ...: a unique violation is caught and
\* logged; ms is the reading of Date.now()
InsertInstallation(i) ==
  /\ procs[i].pc = "registering"
  /\ \E ms \in {now + 1} \cup {c.installed_at : c \in tenants} :
       tenants' = ensureInstallationExists(CurrentStore, CompanyOf(procs[i].req),
                                           ms).tenants
  /\ Step(i, [procs[i] EXCEPT !.pc = "ensured",
                              !.rejected =
                                 \E c \in tenants :
                                   c.company_id = CompanyOf(procs[i].req)])
  /\ UNCHANGED <<members, waitlist>>

\* INSERT INTO members ... ON CONFLICT (whop_membership_id) DO UPDATE
StoreMember(i) ==
  /\ procs[i].pc = "ensured"
  /\ members' = InsertByMembership(CurrentStore, CompanyOf(procs[i].req),
                                   procs[i].req.body.data.user_id,
                                   procs[i].req.body.data.id,
                                   NULL, NULL, NULL, NULL, <<>>, now + 1).members
  /\ Step(i, [procs[i] EXCEPT !.pc = "stored"])
  /\ UNCHANGED <<tenants, waitlist>>

\* res.status(200).json({ success: true, ... })
RespondApp(i) ==
  /\ procs[i].pc = "stored"
  /\ Step(i, [procs[i] EXCEPT !.pc = "answered", !.status = 200])
  /\ UNCHANGED <<tenants, members, waitlist>>

InitInstalls ==
  /\ variant = "app"
  /\ env = Env(NULL, "key")
  /\ tenants = {}
  /\ members = {}
  /\ waitlist = <<>>
  /\ now = 0
  /\ op = "none"
  /\ req = NoRequest
  /\ resp = 0
  /\ pre = EmptyStore
  /\ resolved = NULL
  /\ out = NoBody
  /\ fault = "none"
  /\ alive = TRUE
  /\ sent = 0
  /\ procs = [i \in Slots |-> IdleInstaller]
  /\ failed = FALSE
  /\ handled = NoBody

NextInstalls ==
  \E i \in Slots :
    \/ ArriveApp(i)
    \/ SelectInstallation(i)
    \/ InsertInstallation(i)
    \/ StoreMember(i)
    \/ RespondApp(i)

SpecInstalls == InitInstalls /\ [][NextInstalls]_vars

(***************************************************************************)
(* C27  Check-then-insert of the installation is safe: when the deliveries *)
(* in flight are became-valid events for different members of one company  *)
(* that was not registered, and all of them have been answered, the store  *)
(* holds exactly one installation row for the company and the member row   *)
(* of each delivery.                                                       *)
(***************************************************************************)
C27_InFlight == {i \in Slots : procs[i].pc # "idle"}

C27_SameCompanyDone(c) ==
  /\ Cardinality(C27_InFlight) >= 2
  /\ \A i \in C27_InFlight :
       /\ procs[i].pc = "answered"
       /\ CompanyOf(procs[i].req) = c
  /\ \A i, j \in C27_InFlight :
       i # j => /\ procs[i].req.body.data.user_id # procs[j].req.body.data.user_id
                /\ procs[i].req.body.data.id # procs[j].req.body.data.id

C27_OneInstallation ==
  \A c \in Companies :
    C27_SameCompanyDone(c) =>
      /\ Cardinality({t \in tenants : t.company_id = c}) = 1
      /\ \A i \in C27_InFlight :
           /\ procs[i].status = 200
           /\ \E x \in members :
                /\ x.company_id = c
                /\ x.user_id = procs[i].req.body.data.user_id
                /\ x.membership_id = procs[i].req.body.data.id
                /\ x.status = "active"

\* both handlers found no installation; the INSERT of one was rejected, and
\* both members are stored under the one installation
C27_Witness ==
  \E c \in Companies :
    /\ C27_SameCompanyDone(c)
    /\ \E i \in C27_InFlight : procs[i].rejected
    /\ Cardinality({t \in tenants : t.company_id = c}) = 1
    /\ Cardinality({x \in members : x.company_id = c}) = 2

(***************************************************************************)
(* C28  Custom-field merge within one payload: after a became-valid        *)
(* delivery has written a member row, the stored custom_fields hold every  *)
(* key of every location of the payload that carries a key-value mapping,  *)
(* a later location overwriting the same key of an earlier one; a payload  *)
(* with custom_fields = {q1: a} and metadata = {q2: b} is stored as        *)
(* {q1: a, q2: b}.                                                         *)
(***************************************************************************)
\* the locations of the payload the handler reads custom fields from
C28_Locations ==
  IF variant = "main"
  THEN <<"custom_field_responses", "waitlist_responses", "custom_fields",
         "responses", "metadata">>
  ELSE <<"custom_fields", "custom_field_responses", "metadata",
         "form_responses", "checkout_custom_fields">>

C28_Mapping(data, k) == Sub(data, k)

RECURSIVE C28_MergedUpTo(_, _)
C28_MergedUpTo(data, n) ==
  IF n = 0 THEN <<>>
  ELSE Spread(C28_MergedUpTo(data, n - 1), C28_Mapping(data, C28_Locations[n]))

C28_Merged == C28_MergedUpTo(DataOf(variant, req), Len(C28_Locations))

\* x is the row the became-valid delivery wrote
C28_Wrote(x) ==
  /\ variant \in {"main", "native"}
  /\ op = "webhook"
  /\ IsValidKind(variant, req)
  /\ resp = 200
  /\ x.user_id = MemberIdOf(variant, req)
  /\ x.company_id = TenantOf(variant, env, req)
  /\ x.membership_id = MembershipIdOf(variant, req)
  /\ x.updated_at = now

C28_LocationsMerged ==
  \A x \in members :
    C28_Wrote(x) =>
      \A q \in DOMAIN C28_Merged :
        /\ q \in DOMAIN x.custom_fields
        /\ x.custom_fields[q] = C28_Merged[q]

\* the payload carried custom_fields and metadata, and the row holds the
\* keys of custom_fields only
C28_Witness ==
  \E x \in members :
    /\ C28_Wrote(x)
    /\ C28_Mapping(DataOf(variant, req), "custom_fields") = [q1 |-> "a"]
    /\ C28_Mapping(DataOf(variant, req), "metadata") = [q2 |-> "b"]
    /\ x.custom_fields = [q1 |-> "a"]

(***************************************************************************)
(* C29  Full replace of custom_fields and status on conflict: when a       *)
(* became-valid delivery is written over the member row its INSERT         *)
(* conflicts with, the custom_fields of that row afterwards are exactly    *)
(* the mapping extracted from the delivery, also when that mapping is      *)
(* empty, and its status is active.                                        *)
(***************************************************************************)
\* the mapping the handler extracts from the delivery
C29_Extracted ==
  IF variant = "main"
  THEN FirstObject(DataOf(variant, req),
                   <<"custom_field_responses", "waitlist_responses",
                     "custom_fields", "responses", "metadata">>)
  ELSE IF Has(Sub(req.api, "membership"), "custom_field_responses")
       THEN ResponsesOf(req.api.membership.custom_field_responses)
       ELSE <<>>

\* x carries the conflict target of the delivery's INSERT
C29_Target(x) ==
  IF variant = "main"
  THEN /\ x.company_id = TenantOf(variant, env, req)
       /\ x.user_id = MemberIdOf(variant, req)
  ELSE x.membership_id = MembershipIdOf(variant, req)

C29_Conflicts ==
  /\ variant \in {"main", "app"}
  /\ op = "webhook"
  /\ IsValidKind(variant, req)
  /\ resp = 200
  /\ Truthy(TenantOf(variant, env, req))
  /\ Truthy(MemberIdOf(variant, req))
  /\ Truthy(MembershipIdOf(variant, req))
  /\ \E z \in pre.members : C29_Target(z)

SecondsThreshold == 946684800

Number(th, un) == [type |-> "number", thousands |-> th, units |-> un]

IsoString(y, mo, d, h, mi, s) ==
  [type |-> "string", year |-> y, month |-> mo, day |-> d, hour |-> h,
   minute |-> mi, second |-> s]

Date(ks, s, ms) == [valid |-> TRUE, ks |-> ks, s |-> s, ms |-> ms]

InvalidDate == [valid |-> FALSE, ks |-> 0, s |-> 0, ms |-> 0]

\* a payload that carries no created_at
Undefined == [type |-> "undefined"]

\* a string that is neither a numeral nor a date, such as "not-a-date"
Unparseable == [type |-> "text"]

NaN == [type |-> "nan"]

\* if (data.created_at): undefined, 0 and NaN are falsy, a non-empty string
\* is truthy
TruthyValue(v) ==
  CASE v.type = "undefined" -> FALSE
    [] v.type = "nan" -> FALSE
    [] v.type = "number" -> v.thousands # 0 \/ v.units # 0
    [] OTHER -> TRUE

\* days from 1970-01-01 to the civil date (proleptic Gregorian calendar)
DaysFromCivil(y, mo, d) ==
  LET yy == IF mo <= 2 THEN y - 1 ELSE y
      era == yy \div 400
      yoe == yy - era * 400
      mp == IF mo > 2 THEN mo - 3 ELSE mo + 9
      doy == (153 * mp + 2) \div 5 + d - 1
      doe == yoe * 365 + yoe \div 4 - yoe \div 100 + doy
  IN era * 146097 + doe - 719468

\* seconds from the epoch to the instant an ISO-8601 string names
EpochSeconds(iso) ==
  DaysFromCivil(iso.year, iso.month, iso.day) * 86400
    + iso.hour * 3600 + iso.minute * 60 + iso.second

\* parseInt(v): a number is itself, a string yields its leading digits,
\* which for an ISO-8601 string are the year
ParseInt(v) ==
  CASE v.type = "number" -> v
    [] v.type = "string" -> Number(v.year \div 1000, v.year % 1000)
    [] OTHER -> NaN

\* n > k for a JavaScript number n and an integer k
GreaterThan(n, k) ==
  /\ n.type = "number"
  /\ \/ n.thousands > k \div 1000
     \/ n.thousands = k \div 1000 /\ n.units > k % 1000

\* new Date(n * 1000)
DateOfSeconds(n) == Date(n.thousands, n.units, 0)

\* new Date(v): a number is a time value in milliseconds, a string is parsed
NewDate(v) ==
  CASE v.type = "number" ->
         Date(v.thousands \div 1000, v.thousands % 1000, v.units)
    [] v.type = "string" ->
         Date(EpochSeconds(v) \div 1000, EpochSeconds(v) % 1000, 0)
    [] OTHER -> InvalidDate

\* joinedAt of handleMembershipValid of the main server
JoinedAt(created_at, current) ==
  IF ~TruthyValue(created_at) THEN current
  ELSE LET timestamp == ParseInt(created_at)
       IN IF GreaterThan(timestamp, SecondsThreshold)
          THEN DateOfSeconds(timestamp)
          ELSE NewDate(created_at)

\* data.created_at ? new Date(data.created_at * 1000) : new Date(); the
\* product of a string that is no numeral is NaN
JoinedAt_p001(created_at, current) ==
  IF ~TruthyValue(created_at) THEN current
  ELSE IF created_at.type = "number" THEN DateOfSeconds(created_at)
  ELSE InvalidDate

\* the creation instants the platform reports, all after the year 2000
Instants ==
  { IsoString(y, mo, d, h, mi, s) :
      y \in {2001, 2023}, mo \in {2, 11}, d \in {1, 14}, h \in {0, 22},
      mi \in {0, 13}, s \in {0, 20} }

\* the milliseconds of the instant within its second
Fractions == {0, 999}

\* the three encodings of an instant
AsSeconds(i) == Number(EpochSeconds(i) \div 1000, EpochSeconds(i) % 1000)

AsMilliseconds(i, f) == Number(EpochSeconds(i), f)

InitJoined ==
  /\ variant \in {"main", "fixed"}
  /\ env = Env(NULL, NULL)
  /\ tenants = {}
  /\ members = {}
  /\ waitlist = <<>>
  /\ now = 0
  /\ op = "none"
  /\ req = NoRequest
  /\ resp = 0
  /\ pre = EmptyStore
  /\ resolved = NULL
  /\ Quiet

\* the joined_at the handler computes for each encoding of one instant of
\* one delivery
Normalize ==
  /\ op = "none"
  /\ \E i \in Instants : \E f \in Fractions :
       LET current == Date(EpochSeconds(i) \div 1000, EpochSeconds(i) % 1000, f)
           J(v) == IF variant = "main" THEN JoinedAt(v, current)
                   ELSE JoinedAt_p001(v, current)
       IN /\ req' = Request(<<>>, <<>>, [data |-> [created_at |-> i]], <<>>)
          /\ out' = [instant |-> current,
                     seconds |-> J(AsSeconds(i)),
                     milliseconds |-> J(AsMilliseconds(i, f)),
                     iso |-> J(i),
                     absent |-> J(Undefined)]
  /\ op' = "join"
  /\ UNCHANGED <<variant, env, tenants, members, waitlist, now, resp, pre,
                 resolved, fault, alive, sent, procs, failed, handled>>

\* instants before the year 2000
EarlyInstants ==
  { IsoString(y, mo, 1, h, 0, 0) : y \in {1971, 1999}, mo \in {1, 12}, h \in {0, 23} }

\* created values that name no instant after the year 2000
ImplausibleValues ==
  {Undefined, Unparseable, Number(0, 0)}
    \cup EarlyInstants
    \cup {AsSeconds(i) : i \in EarlyInstants}
    \cup {AsMilliseconds(i, f) : i \in EarlyInstants, f \in Fractions}

\* the joined_at the handler computes for an implausible created value, at
\* the time current
Stamp ==
  /\ op = "none"
  /\ \E v \in ImplausibleValues : \E i \in Instants :
       LET current == Date(EpochSeconds(i) \div 1000, EpochSeconds(i) % 1000, 0)
       IN /\ req' = Request(<<>>, <<>>, [data |-> [created_at |-> v]], <<>>)
          /\ out' = [current |-> current,
                     joined_at |-> IF variant = "main" THEN JoinedAt(v, current)
                                   ELSE JoinedAt_p001(v, current)]
  /\ op' = "stamp"
  /\ UNCHANGED <<variant, env, tenants, members, waitlist, now, resp, pre,
                 resolved, fault, alive, sent, procs, failed, handled>>

NextJoined == Normalize \/ Stamp

SpecJoined == InitJoined /\ [][NextJoined]_vars

(***************************************************************************)
(* C30  Timestamp normalisation agrees across encodings: for a creation    *)
(* instant after the year 2000, the joined_at computed from the instant    *)
(* given as epoch seconds, as epoch milliseconds and as an ISO-8601 string *)
(* are the same instant, within one second.                                *)
(***************************************************************************)
C30_Apart(a, b) ==
  (a.ks - b.ks) * 1000000 + (a.s - b.s) * 1000 + (a.ms - b.ms)

C30_Within1s(a, b) ==
  /\ a.valid
  /\ b.valid
  /\ a.ks - b.ks \in {-1, 0, 1}
  /\ C30_Apart(a, b) \in -1000 .. 1000

C30_EncodingsAgree ==
  op = "join" =>
    /\ C30_Within1s(out.seconds, out.milliseconds)
    /\ C30_Within1s(out.seconds, out.iso)
    /\ C30_Within1s(out.milliseconds, out.iso)

\* 2023-11-14T22:13:20Z on the main server: the seconds and the string give
\* the instant, the milliseconds give an instant a thousand times as far
\* from the epoch
C30_Witness ==
  /\ op = "join"
  /\ variant = "main"
  /\ EpochSeconds(req.body.data.created_at) = 1700000000
  /\ C30_Within1s(out.seconds, out.instant)
  /\ C30_Within1s(out.iso, out.instant)
  /\ out.milliseconds.valid
  /\ out.milliseconds.ks = 1700000000

(***************************************************************************)
(* C31  Implausible timestamps default to now: for a created value that is *)
(* absent, unparseable, zero, or that denotes an instant before the year   *)
(* 2000, the joined_at handed to the store is the current time of the      *)
(* write; it is never an invalid date nor a date before the year 2000.     *)
(***************************************************************************)
\* the Date lies before 2000-01-01T00:00:00Z
C31_Before2000(d) ==
  \/ d.ks < SecondsThreshold \div 1000
  \/ d.ks = SecondsThreshold \div 1000 /\ d.s < SecondsThreshold % 1000

C31_DefaultsToNow ==
  op = "stamp" =>
    /\ out.joined_at.valid
    /\ ~C31_Before2000(out.joined_at)
    /\ out.joined_at = out.current

\* an instant of 1999 given as a string is written as it is
C31_Witness ==
  /\ op = "stamp"
  /\ variant = "main"
  /\ req.body.data.created_at.type = "string"
  /\ out.joined_at.valid
  /\ C31_Before2000(out.joined_at)
  /\ out.joined_at # out.current

(***************************************************************************)
(* The order in which the webhook handlers of the group server and of the  *)
(* native server touch the request and the store, up to and including the  *)
(* signature check: "field" is the read of a payload field, "query" a      *)
(* store query, "verify" the comparison of the signatures.  A handler that *)
(* answers before it verifies performs no "verify".                        *)
(***************************************************************************)
AccessOrder_p002(S, r) ==
  LET companyId == CompanyId_p002(r.body)
      group == {x \in S.tenants : x.company_id = companyId}
  IN IF ~Truthy(companyId) THEN <<"field">>
     ELSE IF group = {} THEN <<"field", "query">>
     ELSE IF /\ Truthy((CHOOSE x \in group : TRUE).webhook_secret)
             /\ Has(r.headers, "x-whop-signature")
          THEN <<"field", "query", "verify">>
          ELSE <<"field", "query">>

AccessOrder_p000(r, secret) ==
  IF ~Truthy(secret) THEN <<>>
  ELSE IF ~Has(r.headers, "x-whop-signature") THEN <<>>
  ELSE IF ~Has(r.headers["x-whop-signature"], "t")
          \/ ~Has(r.headers["x-whop-signature"], "v1") THEN <<>>
  ELSE <<"verify">>

(***************************************************************************)
(* C32  Signature check comes first: when a webhook's signature is         *)
(* verified, the handler has read no payload field and issued no store     *)
(* query before the verification, and the webhook is answered 401 unless   *)
(* the signature is the one the secret gives, in which case the answer is  *)
(* not 401; a signature of any length is answered in one of these two      *)
(* ways.                                                                   *)
(***************************************************************************)
C32_Order ==
  IF variant = "group" THEN AccessOrder_p002(pre, req)
  ELSE AccessOrder_p000(req, env.WHOP_WEBHOOK_SECRET)

C32_Verified ==
  /\ variant \in {"native", "group"}
  /\ op = "webhook"
  /\ \E i \in DOMAIN C32_Order : C32_Order[i] = "verify"

C32_SignatureFirst ==
  C32_Verified =>
    /\ C32_Order[1] = "verify"
    /\ IF SignatureMatches(variant, req, SecretFor(variant, env, pre, req))
       THEN resp # 401
       ELSE resp = 401

\* the group server read the company id and queried the groups before it
\* verified, and answered a signature of two bytes with 500
C32_Witness ==
  /\ C32_Verified
  /\ variant = "group"
  /\ C32_Order = <<"field", "query", "verify">>
  /\ req.headers["x-whop-signature"].bytes # DigestBytes
  /\ resp = 500

(***************************************************************************)
(* C33  An updated event refreshes with the extraction of became-valid:    *)
(* for an existing active member, email, name and username are each taken  *)
(* from the first populated of the candidate locations the became-valid    *)
(* handler reads, an attribute that is found replaces the stored one, an   *)
(* attribute that is not found keeps its stored value, and the custom      *)
(* fields found are in the row afterwards.                                 *)
(***************************************************************************)
\* what the became-valid handler extracts from the data of the delivery
C33_Email(data) ==
  FirstTruthy(<<F(data, "email"), F(data, "user_email"), F(UserObj(data), "email")>>)

C33_Name(data) ==
  FirstTruthy(<<F(data, "name"), F(data, "display_name"), F(data, "user_name"),
                F(UserObj(data), "name"), F(UserObj(data), "display_name"),
                FullName(data)>>)

C33_Username(data) ==
  FirstTruthy(<<F(data, "username"), F(data, "user_username"),
                F(UserObj(data), "username")>>)

C33_Fields(data) ==
  FirstObject(data, <<"custom_field_responses", "waitlist_responses",
                      "custom_fields", "responses", "metadata">>)

\* x is the row of the active member z after an updated event for it
C33_Refreshed(x, z) ==
  /\ variant = "main"
  /\ op = "webhook"
  /\ IsUpdateKind(variant, req)
  /\ resp = 200
  /\ z.status = "active"
  /\ z.company_id = TenantOf(variant, env, req)
  /\ z.user_id = MemberIdOf(variant, req)
  /\ SameKey(x, z)

C33_SameExtraction ==
  \A x \in members : \A z \in pre.members :
    C33_Refreshed(x, z) =>
      LET data == DataOf(variant, req)
      IN /\ x.email = Coalesce(C33_Email(data), z.email)
         /\ x.name = Coalesce(C33_Name(data), z.name)
         /\ x.username = Coalesce(C33_Username(data), z.username)
         /\ \A q \in DOMAIN C33_Fields(data) :
              /\ q \in DOMAIN x.custom_fields
              /\ x.custom_fields[q] = C33_Fields(data)[q]

\* the update carried user_email and the row kept the stored email
C33_Witness ==
  \E x \in members : \E z \in pre.members :
    /\ C33_Refreshed(x, z)
    /\ C33_Email(DataOf(variant, req)) = "e3"
    /\ z.email = "e1"
    /\ x.email = "e1"

(***************************************************************************)
(* C34  Status effect of updated events: an updated event changes the      *)
(* status of no member row that exists (an inactive member stays           *)
(* inactive), and an updated event for a member that has no row creates    *)
(* that row with status active.                                            *)
(***************************************************************************)
C34_Update ==
  /\ variant = "main"
  /\ op = "webhook"
  /\ IsUpdateKind(variant, req)
  /\ resp = 200
  /\ Truthy(MemberIdOf(variant, req))

C34_Named(x) ==
  /\ x.company_id = TenantOf(variant, env, req)
  /\ x.user_id = MemberIdOf(variant, req)

C34_UpdateKeepsStatus ==
  C34_Update =>
    /\ \A z \in pre.members :
         \E x \in members : SameKey(x, z) /\ x.status = z.status
    /\ \A x \in members :
         (\A z \in pre.members : ~SameKey(x, z)) => C34_Named(x) /\ x.status = "active"
    /\ \E x \in members : C34_Named(x)

\* an update refreshed the row of an inactive member, which stays inactive
C34_Witness ==
  /\ C34_Update
  /\ \E z \in pre.members : \E x \in members :
       /\ C34_Named(z)
       /\ SameKey(x, z)
       /\ z.status = "inactive"
       /\ x.status = "inactive"
       /\ x.email # z.email

(***************************************************************************)
(* Two deliveries in both orders.  After deliveries that build a store,    *)
(* two webhook deliveries a and b are processed one after the other, a     *)
(* first; out keeps b and the members table that processing b first would  *)
(* have left.                                                              *)
(***************************************************************************)
OrderRequests == IF variant = "main" THEN MainRequests ELSE AppRequests

Delivered(S, r, t) ==
  IF variant = "main" THEN WebhookMainResult(S, r, t).store
  ELSE WebhookAppResult(S, r, env.WHOP_API_KEY, t).store

InitOrders ==
  /\ variant \in {"main", "app"}
  /\ env = Env(NULL, "key")
  /\ tenants = {}
  /\ members = {}
  /\ waitlist = <<>>
  /\ now = 0
  /\ op = "none"
  /\ req = NoRequest
  /\ resp = 0
  /\ pre = EmptyStore
  /\ resolved = NULL
  /\ Quiet

\* an earlier delivery
Precede ==
  /\ op # "pair"
  /\ now + 2 < MaxRequests
  /\ \E r \in OrderRequests :
       Answer("webhook", r, [store |-> Delivered(CurrentStore, r, now + 1),
                             status |-> 200])

DeliverPair ==
  /\ op # "pair"
  /\ \E a \in OrderRequests : \E b \in OrderRequests :
       \E sa \in {Delivered(CurrentStore, a, now + 1)} :
       \E sb \in {Delivered(CurrentStore, b, now + 1)} :
       \E ab \in {Delivered(sa, b, now + 2)} :
       \E ba \in {Delivered(sb, a, now + 2)} :
         /\ tenants' = ab.tenants
         /\ members' = ab.members
         /\ waitlist' = ab.waitlist
         /\ req' = a
         /\ out' = [second |-> b, reversed |-> ba.members]
  /\ pre' = CurrentStore
  /\ op' = "pair"
  /\ now' = now + 2
  /\ resp' = 200
  /\ UNCHANGED <<variant, env, resolved, fault, alive, sent, procs, failed, handled>>

NextOrders == Precede \/ DeliverPair

SpecOrders == InitOrders /\ [][NextOrders]_vars

(***************************************************************************)
(* C35  Deliveries for different members commute: when two webhook         *)
(* deliveries name different (tenant, member) keys, processing them in     *)
(* either order leaves the same members table, the times of the writes     *)
(* apart.                                                                  *)
(***************************************************************************)
C35_Key(r) == <<TenantOf(variant, env, r), MemberIdOf(variant, r)>>

C35_Timeless(M) == {[x EXCEPT !.updated_at = 0, !.joined_at = 0] : x \in M}

C35_DifferentMembers ==
  /\ op = "pair"
  /\ Truthy(C35_Key(req)[1]) /\ Truthy(C35_Key(req)[2])
  /\ Truthy(C35_Key(out.second)[1]) /\ Truthy(C35_Key(out.second)[2])
  /\ C35_Key(req) # C35_Key(out.second)

C35_Commute ==
  C35_DifferentMembers => C35_Timeless(members) = C35_Timeless(out.reversed)

\* two became-valid deliveries of the app server for different members that
\* carry one membership id: the member stored is that of the first delivery
C35_Witness ==
  /\ C35_DifferentMembers
  /\ variant = "app"
  /\ pre.members = {}
  /\ IsValidKind(variant, req)
  /\ IsValidKind(variant, out.second)
  /\ MemberIdOf(variant, req) # MemberIdOf(variant, out.second)
  /\ \E x \in members : \E y \in out.reversed :
       /\ x.user_id = MemberIdOf(variant, req)
       /\ y.user_id = MemberIdOf(variant, out.second)
       /\ x.membership_id = y.membership_id
  /\ Cardinality(members) = 1
  /\ Cardinality(out.reversed) = 1

(***************************************************************************)
(* C36  joined_at is fixed at creation: a webhook delivery, be it a        *)
(* became-valid redelivery, a became-invalid or an updated event, leaves   *)
(* the joined_at of every member row that existed as it was.               *)
(***************************************************************************)
C36_Event ==
  /\ op = "webhook"
  /\ \/ IsValidKind(variant, req)
     \/ IsInvalidKind(variant, req)
     \/ IsUpdateKind(variant, req)

C36_JoinedAtFixed ==
  C36_Event =>
    \A z \in pre.members : \A x \in members :
      SameKey(x, z) => x.joined_at = z.joined_at

\* the redelivery of a became-valid event to the group server moved the
\* joined_at of the member's row to the time of the redelivery
C36_Witness ==
  /\ C36_Event
  /\ variant = "group"
  /\ IsValidKind(variant, req)
  /\ resp = 200
  /\ \E z \in pre.members : \E x \in members :
       /\ SameKey(x, z)
       /\ z.status = "active"
       /\ z.joined_at < now
       /\ x.joined_at = now

(***************************************************************************)
(* Installations of the app server: webhooks, the manual registration and  *)
(* the directory read.  is_active of an installation is the status of its  *)
(* tenant row.                                                             *)
(***************************************************************************)
RegistrationRequests ==
  { Request(<<>>, <<>>, Opt("whop_company_id", c) @@ Opt("company_name", n), <<>>) :
      c \in Companies \cup {NULL}, n \in {NULL, "Acme"} }

\* app.post('/api/register-installation'): [store, status]
RegisterInstallationResult(S, r, t) ==
  LET c == F(r.body, "whop_company_id")
      name == OrElse(F(r.body, "company_name"), "Manual Install")
      iid == "manual_" \o ToString(t)
  IN IF ~Truthy(c) THEN [store |-> S, status |-> 400]
     ELSE IF \E x \in S.tenants : x.company_id = c
     THEN [status |-> 200,
           store |-> [S EXCEPT !.tenants =
                        {IF x.company_id = c
                         THEN [x EXCEPT !.company_name = name, !.status = "active",
                                        !.installed_at = t]
                         ELSE x : x \in S.tenants}]]
     ELSE IF \E x \in S.tenants : x.installation_id = iid
     THEN [store |-> S, status |-> 500]
     ELSE [status |-> 200,
           store |-> [S EXCEPT !.tenants =
                        S.tenants \cup {Tenant(c, name, "active", t, t, iid,
                                               NULL, NULL)}]]

RegisterInstallation ==
  /\ variant = "app"
  /\ now < MaxRequests
  /\ \E r \in RegistrationRequests :
       Answer("register", r, RegisterInstallationResult(CurrentStore, r, now + 1))

InitLifecycle ==
  /\ variant = "app"
  /\ env = Env(NULL, "key")
  /\ tenants = {}
  /\ members = {}
  /\ waitlist = <<>>
  /\ now = 0
  /\ op = "none"
  /\ req = NoRequest
  /\ resp = 0
  /\ pre = EmptyStore
  /\ resolved = NULL
  /\ Quiet

NextLifecycle ==
  \/ WebhookApp
  \/ RegisterInstallation
  \/ DirectoryApp

SpecLifecycle == InitLifecycle /\ [][NextLifecycle]_vars

(***************************************************************************)
(* C37  Installation lifecycle: the directory of a company is answered     *)
(* other than 404 exactly when an active installation row of the company   *)
(* exists; app.uninstalled leaves the installation of its company inactive *)
(* and changes no member row; and an installation that was inactive is     *)
(* active again only after app.installed or a manual registration for its  *)
(* company, never after a became-valid event alone.                        *)
(***************************************************************************)
C37_Kind == OrElse(F(req.body, "action"), F(req.body, "type"))

C37_Active(T, c) == \E x \in T : x.company_id = c /\ x.status = "active"

C37_Reinstalls(c) ==
  \/ /\ op = "webhook"
     /\ C37_Kind \in AppInstalledKinds
     /\ F(Sub(req.body, "data"), "company_id") = c
  \/ /\ op = "register"
     /\ F(req.body, "whop_company_id") = c

C37_Lifecycle ==
  /\ op = "directory" =>
       (resp # 404 <=> C37_Active(tenants, req.params["companyId"]))
  /\ (op = "webhook" /\ C37_Kind \in AppUninstalledKinds) =>
       /\ members = pre.members
       /\ ~C37_Active(tenants, F(Sub(req.body, "data"), "company_id"))
  /\ \A z \in pre.tenants :
       (z.status # "active" /\ C37_Active(tenants, z.company_id))
         => C37_Reinstalls(z.company_id)

\* a became-valid event wrote a member of a company whose installation is
\* switched off, and the installation stays off
C37_Witness ==
  /\ op = "webhook"
  /\ C37_Kind \in AppValidKinds
  /\ members # pre.members
  /\ \E z \in pre.tenants :
       /\ z.status = "inactive"
       /\ z.company_id = TenantOf(variant, env, req)
       /\ ~C37_Active(tenants, z.company_id)

(***************************************************************************)
(* C38  Referer extraction skips placeholders: for a request that carries  *)
(* a Referer header and nothing else, the URL patterns (the apps-subdomain *)
(* pattern, then the fifteen patterns of the list) are tried in order and  *)
(* the result is the first capture that is none of "www", "app", "apps";   *)
(* the result is never one of these three, it is the subdomain for a       *)
(* referer of the bare subdomain form, and it is Unresolved when no        *)
(* pattern yields another capture.                                         *)
(***************************************************************************)
C38_OnlyReferer ==
  /\ variant = "main"
  /\ op = "resolve"
  /\ DOMAIN req.headers = {"referer"}
  /\ req.query = <<>>
  /\ req.body = <<>>

\* the capture of pattern n for the referer u, the apps-subdomain pattern
\* being pattern 0
C38_Capture(u, n) ==
  IF n = 0
  THEN LET l == HostLabels(u.host)
       IN IF Len(l) >= 4 /\ l[2] = "apps" /\ l[3] = "whop" /\ l[4] = "com"
          THEN l[1] ELSE NULL
  ELSE RefererPattern(u, n)

C38_Expected(u) ==
  LET hits == {n \in 0..NumRefererPatterns :
                 /\ C38_Capture(u, n) # NULL
                 /\ C38_Capture(u, n) \notin Placeholders}
  IN IF hits = {} THEN NULL ELSE C38_Capture(u, MinOf(hits))

\* https://<label>.whop.com with no path
C38_BareSubdomain(u) ==
  /\ Len(HostLabels(u.host)) = 3
  /\ HostLabels(u.host)[2] = "whop"
  /\ u.path = <<>>
  /\ u.query = <<>>
  /\ HostLabels(u.host)[1] \notin Placeholders

C38_SkipsPlaceholders ==
  C38_OnlyReferer =>
    /\ resolved \notin Placeholders
    /\ resolved = C38_Expected(req.headers["referer"])
    /\ C38_BareSubdomain(req.headers["referer"])
         => resolved = HostLabels(req.headers["referer"].host)[1]

\* https://apps.apps.whop.com/ resolves to the tenant "apps"
C38_Witness ==
  /\ C38_OnlyReferer
  /\ req.headers["referer"].host = "apps.apps.whop.com"
  /\ resolved = "apps"

(***************************************************************************)
(* Tenant lookups of the slug-aware server (src/unnamed/part_001), on the  *)
(* stores its webhook and its first visits leave.                          *)
(***************************************************************************)
LookupIdentifiers == {"acme", "biz_", "biz_1", "biz_2", NULL}

\* findCompanyInDatabase(identifier): each query has LIMIT 1 and no ORDER BY;
\* out keeps the identifier, the answer and the table the queries read
FindCompany ==
  /\ variant = "fixed"
  /\ \E identifier \in LookupIdentifiers :
       \E found \in {findCompanyInDatabase(CurrentStore, identifier)} :
         /\ \/ /\ found = {}
               /\ out' = [identifier |-> identifier, found |-> FALSE,
                          tenants |-> tenants]
            \/ \E row \in found :
                 out' = [identifier |-> identifier, found |-> TRUE, row |-> row,
                         tenants |-> tenants]
         /\ op' = "lookup"
         /\ pre' = CurrentStore
  /\ UNCHANGED <<variant, env, tenants, members, waitlist, now, req, resp,
                 resolved, fault, alive, sent, procs, failed, handled>>

\* became-valid deliveries for three company ids
LookupDeliveries ==
  { FixedDelivery("membership.went_valid", c, "u1", <<>>) :
      c \in {"acme", "biz_", "biz_1"} }

DeliverFixed ==
  /\ variant = "fixed"
  /\ now < MaxRequests
  /\ \E r \in LookupDeliveries :
       Answer("webhook", r, WebhookFixedResult(CurrentStore, r, now + 1))

\* the deliveries, one first visit in steps, and the lookups
NextLookup ==
  \/ DeliverFixed
  \/ ArriveAuto(1)
  \/ LookupCompany(1)
  \/ CreateDirectory(1)
  \/ RefetchCompany(1)
  \/ TouchAndAnswer(1)
  \/ FindCompany

SpecLookup == InitSlugViews /\ [][NextLookup]_vars

(***************************************************************************)
(* C39  Tenant lookup order: a lookup returns a tenant whose tenant id     *)
(* equals the identifier whenever one exists; otherwise a tenant whose     *)
(* slug equals it when one exists; otherwise only a tenant matched by      *)
(* name; and while an exact id or slug match exists, no tenant whose id    *)
(* and slug both differ from the identifier is returned.                   *)
(***************************************************************************)
C39_ById == {x \in out.tenants : x.company_id = out.identifier}

C39_BySlug == {x \in out.tenants : x.company_slug = out.identifier}

C39_ByName == {x \in out.tenants : ILike(x.company_name, out.identifier)}

C39_LookupOrder ==
  (op = "lookup" /\ out.identifier # NULL) =>
    /\ C39_ById # {} => out.found /\ out.row \in C39_ById
    /\ (C39_ById = {} /\ C39_BySlug # {}) => out.found /\ out.row \in C39_BySlug
    /\ (C39_ById = {} /\ C39_BySlug = {}) =>
         IF C39_ByName = {} THEN ~out.found
         ELSE out.found /\ out.row \in C39_ByName
    /\ (out.found /\ C39_ById \cup C39_BySlug # {}) =>
         \/ out.row.company_id = out.identifier
         \/ out.row.company_slug = out.identifier

\* the id match is returned while another tenant has the identifier as its
\* slug and its name matches too
C39_Witness ==
  /\ op = "lookup"
  /\ out.identifier = "acme"
  /\ C39_ById # {}
  /\ C39_BySlug \ C39_ById # {}
  /\ C39_ByName \ C39_ById # {}
  /\ out.row \in C39_ById

(***************************************************************************)
(* The directory page (src/public/member-directory.js and                  *)
(* src/unnamed/part_004, whose loadMembers, renderMembers and show*        *)
(* methods are the same text).  out is the style.display of the four       *)
(* views and the rows of the table body, resolved is this.companyId,       *)
(* handled is this.filteredMembers, req is the outcome of the last fetch,  *)
(* now counts the calls of loadMembers.  One load is in flight at a time.  *)
(***************************************************************************)
Views(loading, error, noMembers, table, rows) ==
  [loadingState |-> loading, errorState |-> error, noMembersState |-> noMembers,
   membersTable |-> table, rows |-> rows]

showContent(d) ==
  [d EXCEPT !.loadingState = "none", !.errorState = "none",
            !.noMembersState = "none", !.membersTable = "table"]

showError(d) ==
  [d EXCEPT !.loadingState = "none", !.membersTable = "none",
            !.noMembersState = "none", !.errorState = "block"]

showNoMembers(d) ==
  [d EXCEPT !.loadingState = "none", !.membersTable = "none",
            !.errorState = "none", !.noMembersState = "block"]

\* tbody.innerHTML = ''; then the no-members view, or one row per member
renderMembers(d, filteredMembers) ==
  IF Len(filteredMembers) = 0 THEN showNoMembers([d EXCEPT !.rows = <<>>])
  ELSE [d EXCEPT !.rows = filteredMembers]

\* what the fetch of /api/directory/:companyId may bring
PageMembers == {<<>>, <<"m1">>, <<"m2">>, <<"m1", "m2">>, <<"m2", "m1">>}

FetchOutcomes ==
  { [kind |-> "ok", data |-> [members |-> l]] : l \in PageMembers }
  \cup { [kind |-> "ok", data |-> [success |-> TRUE]] }
  \cup { [kind |-> "status", status |-> s] : s \in {404, 500} }
  \cup { [kind |-> "rejected"], [kind |-> "invalid"] }

NoOutcome == [kind |-> "none"]

\* the contexts a CONTEXT message may carry
PageContexts ==
  { [company |-> [id |-> "biz_1"]], [business_id |-> "biz_2"],
    [page_id |-> "biz_1"], [user |-> "u1"] }

PageScripts == {"member-directory.js", "part_004"}

\* loadMembers up to its await of fetch
BeginLoad(d) ==
  [d EXCEPT !.loadingState = "block", !.membersTable = "none"]

\* DOMContentLoaded: the loading view shown, the table hidden and emptied,
\* init() with the hardcoded company id, loadMembers up to the fetch
InitPage ==
  /\ variant \in PageScripts
  /\ env = Env(NULL, NULL)
  /\ tenants = {}
  /\ members = {}
  /\ waitlist = <<>>
  /\ now = 1
  /\ op = "fetching"
  /\ req = NoOutcome
  /\ resp = 0
  /\ pre = EmptyStore
  /\ resolved = "biz_6GuEa8lMu5p9yI"
  /\ out = BeginLoad(Views("block", "none", "none", "none", <<>>))
  /\ fault = "none"
  /\ alive = TRUE
  /\ sent = 0
  /\ procs = <<>>
  /\ failed = FALSE
  /\ handled = <<>>

\* loadMembers from the answer of the fetch to its end
EndLoad ==
  /\ op = "fetching"
  /\ \E o \in FetchOutcomes :
       /\ req' = o
       /\ IF o.kind = "ok"
          THEN LET list == IF "members" \in DOMAIN o.data THEN o.data.members
                           ELSE <<>>
               IN /\ handled' = list
                  /\ out' = showContent(renderMembers(out, list))
                  /\ failed' = FALSE
          ELSE /\ handled' = handled
               /\ out' = showError(out)
               /\ failed' = TRUE
  /\ op' = "loaded"
  /\ UNCHANGED <<variant, env, tenants, members, waitlist, now, resp, pre,
                 resolved, fault, alive, sent, procs>>

\* handleContext of part_004 on a CONTEXT message: the company id of the
\* context, then loadMembers or the error view
handleContext ==
  /\ variant = "part_004"
  /\ op # "fetching"
  /\ now < MaxRequests
  /\ \E context \in PageContexts :
       LET companyId ==
             FirstTruthy(<<F(Sub(context, "company"), "id"),
                           F(context, "business_id"), F(context, "page_id")>>)
       IN /\ resolved' = companyId
          /\ IF Truthy(companyId)
             THEN /\ out' = BeginLoad(out)
                  /\ op' = "fetching"
                  /\ now' = now + 1
             ELSE /\ out' = showError(out)
                  /\ op' = "context"
                  /\ now' = now
  /\ UNCHANGED <<variant, env, tenants, members, waitlist, req, resp, pre,
                 fault, alive, sent, procs, failed, handled>>

NextPage == EndLoad \/ handleContext

SpecPage == InitPage /\ [][NextPage]_vars

(***************************************************************************)
(* C40  Directory page view state: when loadMembers has finished, exactly  *)
(* one of the four views (loading, error, no-members, table) is visible:   *)
(* the error view when the fetch failed, the no-members view when the      *)
(* loaded list is empty, the table when it is not; the loading view is     *)
(* never left visible.                                                     *)
(***************************************************************************)
C40_Visible ==
  {v \in {"loadingState", "errorState", "noMembersState", "membersTable"} :
     out[v] # "none"}

C40_ViewState ==
  op = "loaded" =>
    /\ Cardinality(C40_Visible) = 1
    /\ "loadingState" \notin C40_Visible
    /\ failed => C40_Visible = {"errorState"}
    /\ (~failed /\ handled = <<>>) => C40_Visible = {"noMembersState"}
    /\ (~failed /\ handled # <<>>) => C40_Visible = {"membersTable"}

\* an empty list was loaded and the (empty) table is what is shown
C40_Witness ==
  /\ op = "loaded"
  /\ req.kind = "ok"
  /\ handled = <<>>
  /\ out.membersTable = "table"
  /\ out.noMembersState = "none"

====
